---- MODULE Spec2Model ----
(***************************************************************************)
(* Model of the epicTreeGUI export pipeline: the parameter flattener, the  *)
(* type sanitizer and the field extractors of python/field_mapper.py, the  *)
(* tree flattener of python/export_mat.py and the parameter handling of    *)
(* the other conversion entry points under python_export/.                 *)
(*                                                                         *)
(* Python values are tagged records [t, v]: t is the Python type, v the    *)
(* payload.  A dict is a sequence of <<key, value>> pairs with distinct    *)
(* keys, in insertion order (the order dict.items() traverses).            *)
(***************************************************************************)
EXTENDS Integers, Sequences, FiniteSets, TLC

VARIABLES
    fn,             \* the pure function that has been applied ("none" before the call)
    arg,            \* its argument
    ret,            \* its return value
    tree_data,      \* export_to_mat: the list of experiment nodes
    h5_file_path,   \* export_to_mat: the caller-supplied H5 path (None when not given)
    experiments,    \* export_to_mat: the local list `experiments`
    pc,             \* export_to_mat: "idle", "loop", "written" or "raised"
    export_data     \* export_to_mat: the document handed to scipy.io.savemat

vars == <<fn, arg, ret, tree_data, h5_file_path, experiments, pc, export_data>>
pureVars == <<fn, arg, ret>>
exportVars == <<tree_data, h5_file_path, experiments, pc, export_data>>

----------------------------------------------------------------------------
(* Python values *)

PyNone == [t |-> "none", v |-> 0]
PyInt(n) == [t |-> "int", v |-> n]
PyFloat(n) == [t |-> "float", v |-> n]
PyBool(b) == [t |-> "bool", v |-> b]
PyStr(s) == [t |-> "str", v |-> s]
PyDict(items) == [t |-> "dict", v |-> items]
PyList(items) == [t |-> "list", v |-> items]
\* a datetime object (has strftime); v is what str() renders
PyDatetime(s) == [t |-> "datetime", v |-> s]
\* any other object (tuple, Decimal, ...); v is what str() renders
PyOther(s) == [t |-> "other", v |-> s]

IsDict(x) == x.t = "dict"
IsNone(x) == x.t = "none"

\* Python truthiness, as used by `x or ''` and `if x:`
Truthy(x) ==
    CASE x.t = "none" -> FALSE
      [] x.t = "int" -> x.v # 0
      [] x.t = "float" -> x.v # 0
      [] x.t = "bool" -> x.v
      [] x.t = "str" -> x.v # ""
      [] x.t = "dict" -> Len(x.v) > 0
      [] x.t = "list" -> Len(x.v) > 0
      [] OTHER -> TRUE

\* the keys of a dict's item sequence
KeysOf(items) == {items[i][1] : i \in DOMAIN items}

HasKey(items, k) == \E i \in DOMAIN items : items[i][1] = k

\* d[k] for a key that is present
Lookup(items, k) == items[CHOOSE i \in DOMAIN items : items[i][1] = k][2]

\* dict.get(k, default)
DictGet(items, k, default) == IF HasKey(items, k) THEN Lookup(items, k) ELSE default

\* d.setdefault(k, val): the first value written under a key stays
DictSet_KeepFirst(items, k, val) ==
    IF HasKey(items, k) THEN items ELSE Append(items, <<k, val>>)

\* d[k] = val: an existing key keeps its position, a new key is appended
DictSet(items, k, val) ==
    IF HasKey(items, k)
    THEN [i \in DOMAIN items |-> IF items[i][1] = k THEN <<k, val>> ELSE items[i]]
    ELSE Append(items, <<k, val>>)

\* d.update(other): d[k] = val for each item of other, in order
RECURSIVE DictUpdate(_, _)
DictUpdate(items, other) ==
    IF other = <<>> THEN items
    ELSE DictUpdate(DictSet(items, Head(other)[1], Head(other)[2]), Tail(other))

----------------------------------------------------------------------------
(* field_mapper.py: sanitize_for_matlab, flatten_json_params *)

\* sanitize_for_matlab with its two return values swapped
sanitize_for_matlab_Swapped(value) ==
    IF IsNone(value) THEN PyDict(<<>>)
    ELSE IF IsDict(value) /\ ~Truthy(value) THEN PyList(<<>>)
    ELSE value

sanitize_for_matlab(value) ==
    IF IsNone(value) THEN PyList(<<>>)
    ELSE IF IsDict(value) /\ ~Truthy(value) THEN PyDict(<<>>)
    ELSE value

\* json.loads on the texts the model feeds it; any other text does not parse
json_loads(s) ==
    CASE s = "{\"a\": {\"b\": 1}}" ->
            [ok |-> TRUE, val |-> PyDict(<< <<"a", PyDict(<< <<"b", PyInt(1)>> >>)>> >>)]
      [] s = "{\"a_b\": 2, \"a\": {\"b\": null}}" ->
            [ok |-> TRUE, val |-> PyDict(<< <<"a_b", PyInt(2)>>,
                                            <<"a", PyDict(<< <<"b", PyNone>> >>)>> >>)]
      [] s = "{}" -> [ok |-> TRUE, val |-> PyDict(<<>>)]
      [] s = "[1]" -> [ok |-> TRUE, val |-> PyList(<<PyInt(1)>>)]
      [] s = "1" -> [ok |-> TRUE, val |-> PyInt(1)]
      [] s = "null" -> [ok |-> TRUE, val |-> PyNone]
      [] OTHER -> [ok |-> FALSE, val |-> PyNone]

\* FullKey with the separator forgotten
FullKey_NoSeparator(prefix, key) == IF prefix # "" THEN prefix \o key ELSE key

\* the f-string of lines 64-67
FullKey(prefix, key) == IF prefix # "" THEN prefix \o "_" \o key ELSE key

\* the loop of lines 60-77 over the items of a dict
RECURSIVE FlattenItems(_, _, _)
FlattenItems(items, prefix, result) ==
    IF items = <<>> THEN result
    ELSE LET key == Head(items)[1]
             value == Head(items)[2]
             full_key == FullKey(prefix, key)
         IN  IF IsDict(value)
             THEN FlattenItems(Tail(items), prefix,
                               DictUpdate(result, FlattenItems(value.v, full_key, <<>>)))
             ELSE FlattenItems(Tail(items), prefix,
                               DictSet(result, full_key, sanitize_for_matlab(value)))

\* flatten_json_params without the `not isinstance(params_dict, dict)` guard:
\* what was parsed is handed back as it is
flatten_json_params_NoMappingGuard(params_dict, prefix) ==
    IF IsNone(params_dict) THEN PyDict(<<>>)
    ELSE LET parsed == IF params_dict.t = "str" THEN json_loads(params_dict.v)
                       ELSE [ok |-> TRUE, val |-> params_dict]
         IN  IF ~parsed.ok THEN PyDict(<<>>)
             ELSE IF ~IsDict(parsed.val) THEN parsed.val
             ELSE PyDict(FlattenItems(parsed.val.v, prefix, <<>>))

flatten_json_params(params_dict, prefix) ==
    IF IsNone(params_dict) THEN PyDict(<<>>)
    ELSE LET parsed == IF params_dict.t = "str" THEN json_loads(params_dict.v)
                       ELSE [ok |-> TRUE, val |-> params_dict]
         IN  IF ~parsed.ok THEN PyDict(<<>>)
             ELSE IF ~IsDict(parsed.val) THEN PyDict(<<>>)
             ELSE PyDict(FlattenItems(parsed.val.v, prefix, <<>>))

----------------------------------------------------------------------------
(* Bounded inputs of the parameter flattener *)

\* total number of key/value entries of a parameter blob, over all its levels
MaxEntries == 3

\* keys of parameter blobs: "a_b" collides with the path a -> b
ParamKeys == {"", "a", "b", "a_b"}

\* leaf values of parameter blobs
ParamLeaves == {PyNone, PyInt(1), PyInt(2)}

\* the item sequences with exactly n entries in total
ItemsOfSize[n \in Nat] ==
    IF n = 0 THEN {<<>>}
    ELSE UNION {
        LET firstVals == IF w = 1 THEN ParamLeaves \cup {PyDict(<<>>)}
                         ELSE {PyDict(d) : d \in ItemsOfSize[w - 1]}
        IN  {<< <<k, fv>> >> \o rest :
                k \in ParamKeys, fv \in firstVals,
                rest \in ItemsOfSize[n - w]} : w \in 1..n}

DistinctKeys(items) == Cardinality(KeysOf(items)) = Len(items)

RECURSIVE WellFormed(_)
WellFormed(items) ==
    /\ DistinctKeys(items)
    /\ \A i \in DOMAIN items : IsDict(items[i][2]) => WellFormed(items[i][2].v)

ParamDicts == {PyDict(d) : d \in {x \in UNION {ItemsOfSize[n] : n \in 0..MaxEntries} : WellFormed(x)}}

JsonTexts == {"{\"a\": {\"b\": 1}}", "{\"a_b\": 2, \"a\": {\"b\": null}}",
              "{}", "[1]", "1", "null", "", "not json"}

\* what the callers can pass as a parameter blob
ParamBlobs == ParamDicts \cup {PyStr(s) : s \in JsonTexts}
                \cup {PyNone, PyInt(1), PyList(<<PyInt(1)>>)}

----------------------------------------------------------------------------
(* Specification of the parameter flattener alone *)

InitFlatten ==
    /\ fn = "none"
    /\ arg \in ParamBlobs
    /\ ret = PyNone
    /\ tree_data = <<>>
    /\ h5_file_path = PyNone
    /\ experiments = <<>>
    /\ pc = "idle"
    /\ export_data = PyNone

CallFlatten ==
    /\ fn = "none"
    /\ fn' = "flatten_json_params"
    /\ ret' = flatten_json_params(arg, "")
    /\ UNCHANGED <<arg, exportVars>>

NextFlatten == CallFlatten

SpecFlatten == InitFlatten /\ [][NextFlatten]_vars

----------------------------------------------------------------------------
(* field_mapper.py: the field extractors *)

\* obj_dict.get(k): None when the key is absent
Get(obj_dict, k) == DictGet(obj_dict.v, k, PyNone)

\* obj_dict.get(k) or ''
GetOrEmpty(obj_dict, k) ==
    LET got == Get(obj_dict, k) IN IF Truthy(got) THEN got ELSE PyStr("")

\* obj_dict.get(k, default): the default only when the key is absent
GetDefault(obj_dict, k, default) == DictGet(obj_dict.v, k, default)

extract_experiment_fields(obj_dict) ==
    PyDict(<< <<"id", Get(obj_dict, "id")>>,
              <<"h5_uuid", GetOrEmpty(obj_dict, "h5_uuid")>>,
              <<"exp_name", GetDefault(obj_dict, "exp_name", PyStr(""))>>,
              <<"is_mea", GetDefault(obj_dict, "is_mea", PyBool(FALSE))>>,
              <<"label", GetOrEmpty(obj_dict, "label")>>,
              <<"experimenter", GetOrEmpty(obj_dict, "experimenter")>>,
              <<"rig", GetDefault(obj_dict, "rig", PyStr(""))>>,
              <<"institution", GetDefault(obj_dict, "institution", PyStr(""))>> >>)

extract_animal_fields(obj_dict) ==
    PyDict(<< <<"id", Get(obj_dict, "id")>>,
              <<"h5_uuid", GetOrEmpty(obj_dict, "h5_uuid")>>,
              <<"species", GetOrEmpty(obj_dict, "species")>>,
              <<"age", GetOrEmpty(obj_dict, "age")>>,
              <<"sex", GetDefault(obj_dict, "sex", PyStr(""))>> >>)

extract_preparation_fields(obj_dict) ==
    PyDict(<< <<"id", Get(obj_dict, "id")>>,
              <<"h5_uuid", GetOrEmpty(obj_dict, "h5_uuid")>>,
              <<"bath_solution", GetOrEmpty(obj_dict, "bath_solution")>>,
              <<"region", GetOrEmpty(obj_dict, "region")>> >>)

extract_cell_fields(obj_dict) ==
    PyDict(<< <<"id", Get(obj_dict, "id")>>,
              <<"h5_uuid", GetOrEmpty(obj_dict, "h5_uuid")>>,
              <<"type", GetOrEmpty(obj_dict, "type")>>,
              <<"label", GetOrEmpty(obj_dict, "label")>> >>)

extract_epoch_group_fields(obj_dict) ==
    PyDict(<< <<"id", Get(obj_dict, "id")>>,
              <<"h5_uuid", GetOrEmpty(obj_dict, "h5_uuid")>>,
              <<"label", GetOrEmpty(obj_dict, "label")>>,
              <<"protocol_name", GetOrEmpty(obj_dict, "protocol_name")>>,
              <<"protocol_id", GetDefault(obj_dict, "protocol_id", PyInt(0))>>,
              <<"start_time", GetDefault(obj_dict, "start_time", PyStr(""))>>,
              <<"end_time", GetDefault(obj_dict, "end_time", PyStr(""))>> >>)

extract_epoch_block_fields(obj_dict) ==
    PyDict(<< <<"id", Get(obj_dict, "id")>>,
              <<"h5_uuid", GetOrEmpty(obj_dict, "h5_uuid")>>,
              <<"label", GetOrEmpty(obj_dict, "label")>>,
              <<"protocol_name", GetOrEmpty(obj_dict, "protocol_name")>>,
              <<"protocol_id", GetDefault(obj_dict, "protocol_id", PyInt(0))>>,
              <<"start_time", GetDefault(obj_dict, "start_time", PyStr(""))>>,
              <<"end_time", GetDefault(obj_dict, "end_time", PyStr(""))>> >>)

extract_epoch_fields(obj_dict) ==
    PyDict(<< <<"id", Get(obj_dict, "id")>>,
              <<"h5_uuid", GetOrEmpty(obj_dict, "h5_uuid")>>,
              <<"label", GetOrEmpty(obj_dict, "label")>>,
              <<"start_time", GetDefault(obj_dict, "start_time", PyStr(""))>>,
              <<"end_time", GetDefault(obj_dict, "end_time", PyStr(""))>> >>)

----------------------------------------------------------------------------
(* field_mapper.py: parse_sample_rate, response and stimulus structs, *)
(* deep_sanitize                                                      *)

\* a str given by its characters
PyStrOfChars(chars) == [t |-> "chars", v |-> chars]

\* the characters of the sample rate texts of the source rows
CharsOf(text) ==
    CASE text = "10000 Hz" -> <<"1", "0", "0", "0", "0", " ", "H", "z">>
      [] text = "10 kHz" -> <<"1", "0", " ", "k", "H", "z">>
      [] OTHER -> <<>>

Digits == <<"0", "1", "2", "3", "4", "5", "6", "7", "8", "9">>

\* \d and \s on ASCII text
IsDigit(c) == \E d \in DOMAIN Digits : Digits[d] = c
IsSpace(c) == c \in {" ", "\t", "\n"}

DigitValue(c) == (CHOOSE d \in DOMAIN Digits : Digits[d] = c) - 1

\* \d+ from the digit at i: the index of the last digit of the run
RECURSIVE DigitRunEnd(_, _)
DigitRunEnd(chars, i) ==
    IF i < Len(chars) /\ IsDigit(chars[i + 1]) THEN DigitRunEnd(chars, i + 1) ELSE i

\* \s* from i: the index of the first character that is no whitespace
RECURSIVE SpaceRunEnd(_, _)
SpaceRunEnd(chars, i) ==
    IF i <= Len(chars) /\ IsSpace(chars[i]) THEN SpaceRunEnd(chars, i + 1) ELSE i

\* the integer written by the digits i..j
RECURSIVE DecimalValue(_, _, _)
DecimalValue(chars, i, j) ==
    IF j < i THEN 0 ELSE DecimalValue(chars, i, j - 1) * 10 + DigitValue(chars[j])

RECURSIVE Pow10(_)
Pow10(n) == IF n = 0 THEN 1 ELSE 10 * Pow10(n - 1)

StartsWith(chars, i, word) ==
    /\ i + Len(word) - 1 <= Len(chars)
    /\ \A k \in DOMAIN word : chars[i + k - 1] = word[k]

\* the unit pattern without its kHz alternative
UnitAt_NoKilo(chars, i) ==
    IF StartsWith(chars, i, <<"H", "z">>) THEN "Hz"
    ELSE IF StartsWith(chars, i, <<"M", "H", "z">>) THEN "MHz"
    ELSE ""

\* (Hz|kHz|MHz)? at i: the first alternative that matches, "" for None
UnitAt(chars, i) ==
    IF StartsWith(chars, i, <<"H", "z">>) THEN "Hz"
    ELSE IF StartsWith(chars, i, <<"k", "H", "z">>) THEN "kHz"
    ELSE IF StartsWith(chars, i, <<"M", "H", "z">>) THEN "MHz"
    ELSE ""

\* re.search(r'(\d+(?:\.\d+)?)\s*(Hz|kHz|MHz)?', text): the leftmost match
\* starts at the first digit; group 1 is mantissa / 10^scale
sample_rate_search(chars) ==
    LET starts == {i \in DOMAIN chars : IsDigit(chars[i])}
    IN  IF starts = {}
        THEN [matched |-> FALSE, mantissa |-> 0, scale |-> 0, unit |-> ""]
        ELSE LET i == CHOOSE x \in starts : \A y \in starts : x <= y
                 j == DigitRunEnd(chars, i)
                 has_fraction == /\ j + 2 <= Len(chars)
                                 /\ chars[j + 1] = "."
                                 /\ IsDigit(chars[j + 2])
                 k == IF has_fraction THEN DigitRunEnd(chars, j + 2) ELSE j
                 scale == IF has_fraction THEN k - (j + 1) ELSE 0
             IN  [matched |-> TRUE,
                  mantissa |-> DecimalValue(chars, i, j) * Pow10(scale)
                                  + (IF has_fraction THEN DecimalValue(chars, j + 2, k) ELSE 0),
                  scale |-> scale,
                  unit |-> UnitAt(chars, SpaceRunEnd(chars, k + 1))]

\* the float mantissa / 10^scale; a float with an integral value carries
\* that integer, any other its shortest decimal
RECURSIVE FloatOfDecimal(_, _)
FloatOfDecimal(mantissa, scale) ==
    IF scale = 0 THEN PyFloat(mantissa)
    ELSE IF mantissa % 10 = 0 THEN FloatOfDecimal(mantissa \div 10, scale - 1)
    ELSE [t |-> "float", v |-> mantissa, scale |-> scale]

parse_sample_rate(rate_str) ==
    IF IsNone(rate_str) THEN PyFloat(0)
    ELSE IF rate_str.t \in {"int", "float"} THEN PyFloat(rate_str.v)
    ELSE IF rate_str.t = "bool" THEN PyFloat(IF rate_str.v THEN 1 ELSE 0)
    ELSE LET match == sample_rate_search(IF rate_str.t = "chars" THEN rate_str.v
                                         ELSE CharsOf(rate_str.v))
             unit == IF match.unit = "" THEN "Hz" ELSE match.unit
         IN  IF ~match.matched THEN PyFloat(0)
             ELSE IF unit = "kHz" THEN FloatOfDecimal(match.mantissa * 1000, match.scale)
             ELSE IF unit = "MHz" THEN FloatOfDecimal(match.mantissa * 1000000, match.scale)
             ELSE FloatOfDecimal(match.mantissa, match.scale)

\* `h5_file if h5_file else ''`
H5FileOrEmpty(h5_file) == IF Truthy(h5_file) THEN h5_file ELSE PyStr("")

build_response_struct(resp_dict, h5_file) ==
    PyDict(<< <<"device_name", GetDefault(resp_dict, "device_name", PyStr(""))>>,
              <<"data", PyList(<<>>)>>,
              <<"h5_path", GetDefault(resp_dict, "h5path", PyStr(""))>>,
              <<"h5_file", H5FileOrEmpty(h5_file)>>,
              <<"sample_rate", parse_sample_rate(Get(resp_dict, "sample_rate"))>>,
              <<"sample_rate_units", GetDefault(resp_dict, "sample_rate_units", PyStr("Hz"))>>,
              <<"units", GetDefault(resp_dict, "units", PyStr("mV"))>>,
              <<"spike_times", PyList(<<>>)>>,
              <<"offset_ms", PyFloat(0)>> >>)

build_stimulus_struct(stim_dict, h5_file) ==
    LET raw == GetDefault(stim_dict, "stimulus_parameters", PyDict(<<>>))
        stim_params == IF Truthy(raw) /\ raw.t \in {"dict", "str"}
                       THEN flatten_json_params(raw, "")
                       ELSE PyDict(<<>>)
    IN  PyDict(<< <<"device_name", GetDefault(stim_dict, "device_name", PyStr(""))>>,
                  <<"stimulus_id", GetDefault(stim_dict, "stimulus_id", PyStr(""))>>,
                  <<"data", PyList(<<>>)>>,
                  <<"h5_path", GetDefault(stim_dict, "h5path", PyStr(""))>>,
                  <<"h5_file", H5FileOrEmpty(h5_file)>>,
                  <<"sample_rate", parse_sample_rate(Get(stim_dict, "sample_rate"))>>,
                  <<"units", GetDefault(stim_dict, "units", PyStr("normalized"))>>,
                  <<"stimulus_parameters", stim_params>> >>)

\* deep_sanitize that does not descend into lists
RECURSIVE deep_sanitize_SkipsLists(_)
deep_sanitize_SkipsLists(obj) ==
    IF IsNone(obj) THEN PyStr("")
    ELSE IF IsDict(obj)
    THEN PyDict([i \in DOMAIN obj.v |-> <<obj.v[i][1], deep_sanitize_SkipsLists(obj.v[i][2])>>])
    ELSE IF obj.t = "list" THEN obj
    ELSE IF obj.t \notin {"int", "float", "str", "bool", "bytes"} THEN PyStr(obj.v)
    ELSE obj

RECURSIVE deep_sanitize(_)
deep_sanitize(obj) ==
    IF IsNone(obj) THEN PyStr("")
    ELSE IF IsDict(obj)
    THEN PyDict([i \in DOMAIN obj.v |-> <<obj.v[i][1], deep_sanitize(obj.v[i][2])>>])
    ELSE IF obj.t = "list"
    THEN PyList([i \in DOMAIN obj.v |-> deep_sanitize(obj.v[i])])
    ELSE IF obj.t = "datetime" THEN PyStr(obj.v)
    ELSE IF obj.t \notin {"int", "float", "str", "bool", "bytes"} THEN PyStr(obj.v)
    ELSE obj

----------------------------------------------------------------------------
(* export_mat.py: the tree flattener.  A node of the generate_tree output is *)
(* a record; a key the code reads with .get(key, []) is the empty sequence   *)
(* when absent.                                                              *)

\* `node['object'][0] if node.get('object') else {}`
NodeObject(node) == IF node.object # <<>> THEN node.object[1] ELSE PyDict(<<>>)

extract_tags(node) ==
    PyList([i \in DOMAIN node.tags |->
                PyDict(<< <<"user", GetDefault(node.tags[i], "user", PyStr(""))>>,
                          <<"tag", GetDefault(node.tags[i], "tag", PyStr(""))>> >>)])

build_epoch(epoch_node, h5_file) ==
    LET epoch_data == NodeObject(epoch_node)
        epoch_fields == extract_epoch_fields(epoch_data)
        params == GetDefault(epoch_data, "parameters", PyDict(<<>>))
        flat_params == flatten_json_params(params, "")
    IN  PyDict(<< <<"id", Lookup(epoch_fields.v, "id")>>,
                  <<"label", Lookup(epoch_fields.v, "label")>>,
                  <<"start_time", Lookup(epoch_fields.v, "start_time")>>,
                  <<"end_time", Lookup(epoch_fields.v, "end_time")>>,
                  <<"parameters", flat_params>>,
                  <<"tags", extract_tags(epoch_node)>>,
                  <<"responses", PyList([i \in DOMAIN epoch_node.responses |->
                        build_response_struct(epoch_node.responses[i], h5_file)])>>,
                  <<"stimuli", PyList([i \in DOMAIN epoch_node.stimuli |->
                        build_stimulus_struct(epoch_node.stimuli[i], h5_file)])>> >>)

build_epoch_block(eb_node, h5_file) ==
    LET eb_data == NodeObject(eb_node)
        eb_fields == extract_epoch_block_fields(eb_data)
        params == GetDefault(eb_data, "parameters", PyDict(<<>>))
        flat_params == flatten_json_params(params, "")
    IN  PyDict(<< <<"id", Lookup(eb_fields.v, "id")>>,
                  <<"label", Lookup(eb_fields.v, "label")>>,
                  <<"protocol_name", Lookup(eb_fields.v, "protocol_name")>>,
                  <<"protocol_id", Lookup(eb_fields.v, "protocol_id")>>,
                  <<"start_time", Lookup(eb_fields.v, "start_time")>>,
                  <<"end_time", Lookup(eb_fields.v, "end_time")>>,
                  <<"parameters", flat_params>>,
                  <<"tags", extract_tags(eb_node)>>,
                  <<"epochs", PyList([i \in DOMAIN eb_node.children |->
                        build_epoch(eb_node.children[i], h5_file)])>> >>)

build_epoch_group(eg_node, h5_file) ==
    LET eg_data == NodeObject(eg_node)
        eg_fields == extract_epoch_group_fields(eg_data)
    IN  PyDict(<< <<"id", Lookup(eg_fields.v, "id")>>,
                  <<"label", Lookup(eg_fields.v, "label")>>,
                  <<"protocol_name", Lookup(eg_fields.v, "protocol_name")>>,
                  <<"protocol_id", Lookup(eg_fields.v, "protocol_id")>>,
                  <<"start_time", Lookup(eg_fields.v, "start_time")>>,
                  <<"end_time", Lookup(eg_fields.v, "end_time")>>,
                  <<"tags", extract_tags(eg_node)>>,
                  <<"epoch_blocks", PyList([i \in DOMAIN eg_node.children |->
                        build_epoch_block(eg_node.children[i], h5_file)])>> >>)

build_cell(cell_node, animal_meta, prep_meta, h5_file) ==
    LET cell_data == NodeObject(cell_node)
        cell_fields == extract_cell_fields(cell_data)
    IN  PyDict(<< <<"id", Lookup(cell_fields.v, "id")>>,
                  <<"label", Lookup(cell_fields.v, "label")>>,
                  <<"type", Lookup(cell_fields.v, "type")>>,
                  <<"tags", extract_tags(cell_node)>>,
                  <<"properties", PyDict(<<
                        <<"species", GetDefault(animal_meta, "species", PyStr(""))>>,
                        <<"age", GetDefault(animal_meta, "age", PyStr(""))>>,
                        <<"sex", GetDefault(animal_meta, "sex", PyStr(""))>>,
                        <<"bath_solution", GetDefault(prep_meta, "bath_solution", PyStr(""))>>,
                        <<"region", GetDefault(prep_meta, "region", PyStr(""))>> >>)>>,
                  <<"epoch_groups", PyList([i \in DOMAIN cell_node.children |->
                        build_epoch_group(cell_node.children[i], h5_file)])>> >>)

\* a concatenation that appends the parents' runs last-first
RECURSIVE ConcatAll_Reversed(_)
ConcatAll_Reversed(seqs) ==
    IF seqs = <<>> THEN <<>> ELSE ConcatAll_Reversed(Tail(seqs)) \o Head(seqs)

\* the concatenation of a sequence of sequences: the cells list after the
\* nested loops have appended to it
RECURSIVE ConcatAll(_)
ConcatAll(seqs) == IF seqs = <<>> THEN <<>> ELSE Head(seqs) \o ConcatAll(Tail(seqs))

\* the three nested loops of build_experiment (lines 137-149)
CellsOfPreparations(animal_node, h5_file) ==
    LET animal_fields == extract_animal_fields(NodeObject(animal_node))
    IN  ConcatAll([p \in DOMAIN animal_node.children |->
            LET prep_node == animal_node.children[p]
                prep_fields == extract_preparation_fields(NodeObject(prep_node))
            IN  [c \in DOMAIN prep_node.children |->
                    build_cell(prep_node.children[c], animal_fields, prep_fields, h5_file)]])

\* the MEA check reading the node-level flag instead of the row
IsRejectedMEA_NodeFlag(exp_node) == exp_node.is_mea

\* the check of lines 118-126: build_experiment raises ValueError
IsRejectedMEA(exp_node) ==
    Truthy(GetDefault(exp_node.object[1], "is_mea", PyBool(FALSE)))

\* build_experiment that prefers the data_file of the experiment row to the
\* path of the caller
build_experiment_DataFileFirst(exp_node, h5_path) ==
    LET exp_data == exp_node.object[1]
        experiment == extract_experiment_fields(exp_data)
        h5_file == IF HasKey(exp_data.v, "data_file")
                   THEN Lookup(exp_data.v, "data_file") ELSE h5_path
        cells == ConcatAll([a \in DOMAIN exp_node.children |->
                    CellsOfPreparations(exp_node.children[a], h5_file)])
    IN  PyDict(experiment.v \o << <<"tags", extract_tags(exp_node)>>,
                                  <<"cells", PyList(cells)>> >>)

\* build_experiment for an experiment that is not rejected
build_experiment(exp_node, h5_path) ==
    LET exp_data == exp_node.object[1]
        experiment == extract_experiment_fields(exp_data)
        h5_file == IF IsNone(h5_path) THEN GetDefault(exp_data, "data_file", PyStr(""))
                   ELSE h5_path
        cells == ConcatAll([a \in DOMAIN exp_node.children |->
                    CellsOfPreparations(exp_node.children[a], h5_file)])
    IN  PyDict(experiment.v \o << <<"tags", extract_tags(exp_node)>>,
                                  <<"cells", PyList(cells)>> >>)

----------------------------------------------------------------------------
(* Bounded inputs of the field extractors: every field of a level is absent, *)
(* explicitly None, or carries a value of its column type                    *)

Levels == {"experiment", "animal", "preparation", "cell",
           "epoch_group", "epoch_block", "epoch"}

\* the fields each extractor reads, in the order of its dict literal
FieldsOf(level) ==
    CASE level = "experiment" ->
            <<"id", "h5_uuid", "exp_name", "is_mea", "label", "experimenter",
              "rig", "institution">>
      [] level = "animal" -> <<"id", "h5_uuid", "species", "age", "sex">>
      [] level = "preparation" -> <<"id", "h5_uuid", "bath_solution", "region">>
      [] level = "cell" -> <<"id", "h5_uuid", "type", "label">>
      [] level = "epoch_group" ->
            <<"id", "h5_uuid", "label", "protocol_name", "protocol_id",
              "start_time", "end_time">>
      [] level = "epoch_block" ->
            <<"id", "h5_uuid", "label", "protocol_name", "protocol_id",
              "start_time", "end_time">>
      [] level = "epoch" -> <<"id", "h5_uuid", "label", "start_time", "end_time">>

\* a value of the column type of a field
ColumnValue(field) ==
    CASE field \in {"id", "protocol_id"} -> PyInt(7)
      [] field = "is_mea" -> PyBool(FALSE)
      [] field \in {"start_time", "end_time"} -> PyDatetime("2025-01-15 10:00:00")
      [] OTHER -> PyStr(field \o "-value")

FieldStates == {"absent", "null", "value"}

\* the row dict in which each field is in the chosen state
RECURSIVE RowItems(_, _)
RowItems(fields, choice) ==
    IF fields = <<>> THEN <<>>
    ELSE LET f == Head(fields)
             rest == RowItems(Tail(fields), choice)
         IN  CASE choice[f] = "absent" -> rest
               [] choice[f] = "null" -> << <<f, PyNone>> >> \o rest
               [] choice[f] = "value" -> << <<f, ColumnValue(f)>> >> \o rest

FieldSet(level) == {FieldsOf(level)[i] : i \in DOMAIN FieldsOf(level)}

Rows(level) ==
    {PyDict(RowItems(FieldsOf(level), choice)) : choice \in [FieldSet(level) -> FieldStates]}

----------------------------------------------------------------------------
(* Specification of the field extractors alone: arg is <<level, row>> *)

InitExtract ==
    /\ fn = "none"
    /\ \E level \in Levels : \E row \in Rows(level) : arg = <<level, row>>
    /\ ret = PyNone
    /\ tree_data = <<>>
    /\ h5_file_path = PyNone
    /\ experiments = <<>>
    /\ pc = "idle"
    /\ export_data = PyNone

CallExtractExperiment ==
    /\ fn = "none" /\ arg[1] = "experiment"
    /\ fn' = "extract_experiment_fields"
    /\ ret' = extract_experiment_fields(arg[2])
    /\ UNCHANGED <<arg, exportVars>>

CallExtractAnimal ==
    /\ fn = "none" /\ arg[1] = "animal"
    /\ fn' = "extract_animal_fields"
    /\ ret' = extract_animal_fields(arg[2])
    /\ UNCHANGED <<arg, exportVars>>

CallExtractPreparation ==
    /\ fn = "none" /\ arg[1] = "preparation"
    /\ fn' = "extract_preparation_fields"
    /\ ret' = extract_preparation_fields(arg[2])
    /\ UNCHANGED <<arg, exportVars>>

CallExtractCell ==
    /\ fn = "none" /\ arg[1] = "cell"
    /\ fn' = "extract_cell_fields"
    /\ ret' = extract_cell_fields(arg[2])
    /\ UNCHANGED <<arg, exportVars>>

CallExtractEpochGroup ==
    /\ fn = "none" /\ arg[1] = "epoch_group"
    /\ fn' = "extract_epoch_group_fields"
    /\ ret' = extract_epoch_group_fields(arg[2])
    /\ UNCHANGED <<arg, exportVars>>

CallExtractEpochBlock ==
    /\ fn = "none" /\ arg[1] = "epoch_block"
    /\ fn' = "extract_epoch_block_fields"
    /\ ret' = extract_epoch_block_fields(arg[2])
    /\ UNCHANGED <<arg, exportVars>>

CallExtractEpoch ==
    /\ fn = "none" /\ arg[1] = "epoch"
    /\ fn' = "extract_epoch_fields"
    /\ ret' = extract_epoch_fields(arg[2])
    /\ UNCHANGED <<arg, exportVars>>

NextExtract ==
    \/ CallExtractExperiment
    \/ CallExtractAnimal
    \/ CallExtractPreparation
    \/ CallExtractCell
    \/ CallExtractEpochGroup
    \/ CallExtractEpochBlock
    \/ CallExtractEpoch

SpecExtract == InitExtract /\ [][NextExtract]_vars

\* C4: for every field extractor and every row in which any subset of the
\* fields is absent or None, no field of the extractor's output is None.
C4_NoRawNull ==
    fn # "none" => \A i \in DOMAIN ret.v : ~IsNone(ret.v[i][2])

----------------------------------------------------------------------------
(* Bounded inputs of the tree flattener: generate_tree outputs with zero,  *)
(* one or two interposed levels, rows that are complete, all-None or       *)
(* missing, and one level of the tree that has several children per node   *)

\* experiments per run
MaxExps == 2

\* children per node at the wide level of the tree
Fan == 2

username == PyStr("testuser")

Styles == {"full", "nulls", "bare"}

\* what varies per experiment: the state of its rows and its is_mea column
ExpVariants == [style : Styles, mea : BOOLEAN]

WideLevels == {"none", "animal", "preparation", "cell", "epoch_group",
               "epoch_block", "epoch", "responses", "stimuli"}

\* what varies per run: the number of interposed levels above the cells and
\* the level that has Fan children per node (the others have one)
Shapes ==
    {sh \in [elided : 0..2, wide : WideLevels] :
        /\ sh.wide = "preparation" => sh.elided = 2
        /\ sh.wide = "animal" => sh.elided >= 1}

Width(shape, level) == IF shape.wide = level THEN Fan ELSE 1

BlockParams ==
    PyDict(<< <<"preTime", PyInt(1)>>, <<"contrast", PyInt(1)>>,
              <<"stim", PyDict(<< <<"spot", PyNone>> >>)>> >>)

EpochParams ==
    PyDict(<< <<"contrast", PyInt(2)>>,
              <<"led", PyDict(<< <<"amp", PyInt(3)>> >>)>> >>)

StimulusParams ==
    PyDict(<< <<"amp", PyDict(<< <<"x", PyInt(1)>> >>)>>, <<"off", PyNone>> >>)

\* the columns of a row beyond the ones the extractor of its level reads
ExtraItems(level, style) ==
    CASE level = "experiment" ->
            << <<"data_file", IF style = "full" THEN PyStr("/path/data.h5") ELSE PyNone>> >>
      [] level = "animal" /\ style = "full" -> << <<"region", PyStr("Cortex")>> >>
      [] level = "preparation" /\ style = "full" -> << <<"species", PyStr("Rat")>> >>
      [] level = "epoch_block" ->
            << <<"parameters", IF style = "full" THEN BlockParams ELSE PyNone>> >>
      [] level = "epoch" ->
            << <<"parameters", IF style = "full" THEN EpochParams ELSE PyNone>> >>
      [] OTHER -> <<>>

\* the row of a node: every column carries a value (full) or None (nulls);
\* the id is the node's position in the tree
StyleRow(level, style, id) ==
    PyDict(DictSet(RowItems(FieldsOf(level),
                            [f \in FieldSet(level) |->
                                IF style = "full" THEN "value" ELSE "null"]),
                   "id", PyInt(id))
           \o ExtraItems(level, style))

TagsOf(style) ==
    CASE style = "full" ->
            << PyDict(<< <<"user", PyStr("alice")>>, <<"tag", PyStr("good")>>,
                         <<"tag_id", PyInt(3)>> >>) >>
      [] style = "nulls" -> << PyDict(<< <<"user", PyNone>>, <<"tag", PyNone>> >>) >>
      [] OTHER -> <<>>

\* a node below the experiment; a bare node has no object, tags or records
Node(level, style, id, children, responses, stimuli) ==
    [level |-> level,
     object |-> IF style = "bare" THEN <<>> ELSE << StyleRow(level, style, id) >>,
     children |-> children,
     tags |-> TagsOf(style),
     responses |-> responses,
     stimuli |-> stimuli,
     is_mea |-> FALSE]

MkResponse(style, id) ==
    CASE style = "full" ->
            PyDict(<< <<"id", PyInt(id)>>, <<"device_name", PyStr("Amp1")>>,
                      <<"h5path", PyStr("/responses/Amp1-" \o ToString(id))>>,
                      <<"sample_rate", PyStr("10000 Hz")>>,
                      <<"units", PyStr("mV")>> >>)
      [] style = "nulls" ->
            PyDict(<< <<"id", PyInt(id)>>, <<"device_name", PyNone>>,
                      <<"h5path", PyNone>>, <<"sample_rate", PyNone>>,
                      <<"sample_rate_units", PyNone>>, <<"units", PyNone>> >>)
      [] OTHER -> PyDict(<<>>)

MkStimulus(style, id) ==
    CASE style = "full" ->
            PyDict(<< <<"id", PyInt(id)>>, <<"device_name", PyStr("Stage")>>,
                      <<"stimulus_id", PyStr("PulseGenerator")>>,
                      <<"h5path", PyStr("/stimuli/Stage-" \o ToString(id))>>,
                      <<"sample_rate", PyStr("10 kHz")>>,
                      <<"stimulus_parameters", StimulusParams>> >>)
      [] style = "nulls" ->
            PyDict(<< <<"id", PyInt(id)>>, <<"device_name", PyNone>>,
                      <<"stimulus_id", PyNone>>, <<"h5path", PyNone>>,
                      <<"sample_rate", PyNone>>, <<"units", PyNone>>,
                      <<"stimulus_parameters",
                        IF id % 2 = 0 THEN PyDict(<<>>) ELSE PyNone>> >>)
      [] OTHER -> PyDict(<<>>)

MkEpoch(style, shape, id) ==
    Node("epoch", style, id, <<>>,
         [j \in 1..Width(shape, "responses") |-> MkResponse(style, id * 10 + j)],
         [j \in 1..Width(shape, "stimuli") |-> MkStimulus(style, id * 10 + j)])

MkEpochBlock(style, shape, id) ==
    Node("epoch_block", style, id,
         [j \in 1..Width(shape, "epoch") |-> MkEpoch(style, shape, id * 10 + j)],
         <<>>, <<>>)

MkEpochGroup(style, shape, id) ==
    Node("epoch_group", style, id,
         [j \in 1..Width(shape, "epoch_block") |-> MkEpochBlock(style, shape, id * 10 + j)],
         <<>>, <<>>)

MkCell(style, shape, id) ==
    Node("cell", style, id,
         [j \in 1..Width(shape, "epoch_group") |-> MkEpochGroup(style, shape, id * 10 + j)],
         <<>>, <<>>)

MkCells(style, shape, id) ==
    [j \in 1..Width(shape, "cell") |-> MkCell(style, shape, id * 10 + j)]

MkPreparation(style, shape, id) ==
    Node("preparation", style, id, MkCells(style, shape, id), <<>>, <<>>)

\* with one interposed level the animals hold the cells
MkAnimal(style, shape, id) ==
    Node("animal", style, id,
         IF shape.elided = 2
         THEN [j \in 1..Width(shape, "preparation") |->
                    MkPreparation(style, shape, id * 10 + j)]
         ELSE MkCells(style, shape, id),
         <<>>, <<>>)

\* the experiment node: its row always exists (the code indexes object[0]);
\* node_mea is the node-level copy of the flag, which build_experiment ignores
MkExperiment(variant, shape, id, node_mea) ==
    LET base == IF variant.style = "bare" THEN PyDict(<<>>)
                ELSE StyleRow("experiment", variant.style, id)
        row == IF variant.mea THEN PyDict(DictSet(base.v, "is_mea", PyBool(TRUE)))
               ELSE base
    IN  [level |-> "experiment",
         object |-> << row >>,
         children |-> IF shape.elided = 0 THEN MkCells(variant.style, shape, id)
                      ELSE [j \in 1..Width(shape, "animal") |->
                                MkAnimal(variant.style, shape, id * 10 + j)],
         tags |-> TagsOf(variant.style),
         responses |-> <<>>,
         stimuli |-> <<>>,
         is_mea |-> node_mea]

TreeDatas ==
    {[i \in DOMAIN choice |-> MkExperiment(choice[i], shape, i, node_mea)] :
        choice \in UNION {[1..n -> ExpVariants] : n \in 1..MaxExps},
        shape \in Shapes, node_mea \in BOOLEAN}

----------------------------------------------------------------------------
(* Specification of export_to_mat: one step per iteration of the loop over *)
(* tree_data, then the sanitizing and the write                            *)

InitExport ==
    /\ fn = "export_to_mat"
    /\ arg = PyNone
    /\ ret = PyNone
    /\ tree_data \in TreeDatas
    /\ h5_file_path \in {PyNone, PyStr("/custom/path.h5")}
    /\ experiments = <<>>
    /\ pc = "loop"
    /\ export_data = PyNone

\* an iteration of the loop of lines 71-73 whose build_experiment returns
BuildNextExperiment ==
    /\ pc = "loop"
    /\ Len(experiments) < Len(tree_data)
    /\ LET exp_node == tree_data[Len(experiments) + 1]
       IN  /\ ~IsRejectedMEA(exp_node)
           /\ experiments' = Append(experiments, build_experiment(exp_node, h5_file_path))
    /\ UNCHANGED <<pureVars, tree_data, h5_file_path, pc, export_data>>

\* an iteration whose build_experiment raises ValueError: export_to_mat does
\* not catch it, the call ends without a document
RaiseOnMEA ==
    /\ pc = "loop"
    /\ Len(experiments) < Len(tree_data)
    /\ IsRejectedMEA(tree_data[Len(experiments) + 1])
    /\ pc' = "raised"
    /\ UNCHANGED <<pureVars, tree_data, h5_file_path, experiments, export_data>>

\* lines 75-101: the document is assembled, sanitized and handed to savemat
WriteMat ==
    /\ pc = "loop"
    /\ Len(experiments) = Len(tree_data)
    /\ export_data' = deep_sanitize(PyDict(<<
            <<"format_version", PyStr("1.0")>>,
            <<"metadata", PyDict(<<
                <<"created_date", PyStr("2025-01-15 10:00:00")>>,
                <<"data_source", PyStr("DataJoint + H5 files")>>,
                <<"export_user", username>> >>)>>,
            <<"experiments", PyList(experiments)>> >>))
    /\ pc' = "written"
    /\ UNCHANGED <<pureVars, tree_data, h5_file_path, experiments>>

NextExport == BuildNextExperiment \/ RaiseOnMEA \/ WriteMat

SpecExport == InitExport /\ [][NextExport]_vars

----------------------------------------------------------------------------
(* Leaves of a nested mapping, for the properties of the flattener *)

\* the <<path, value>> pairs of the non-mapping values, in traversal order
RECURSIVE LeafPaths(_, _)
LeafPaths(items, path) ==
    IF items = <<>> THEN <<>>
    ELSE LET key == Head(items)[1]
             value == Head(items)[2]
             here == IF IsDict(value) THEN LeafPaths(value.v, Append(path, key))
                     ELSE << <<Append(path, key), value>> >>
         IN  here \o LeafPaths(Tail(items), path)

\* "_".join(path)
RECURSIVE JoinPath(_)
JoinPath(path) ==
    IF path = <<>> THEN ""
    ELSE IF Len(path) = 1 THEN path[1]
    ELSE path[1] \o "_" \o JoinPath(Tail(path))

\* the path without its leading empty-string keys
RECURSIVE DropLeadingEmpty(_)
DropLeadingEmpty(path) ==
    IF path # <<>> /\ Head(path) = "" THEN DropLeadingEmpty(Tail(path)) ELSE path

NoNestedMapping(d) == \A i \in DOMAIN d.v : ~IsDict(d.v[i][2])

FlattenedMapping == fn = "flatten_json_params" /\ IsDict(arg)

\* C1 as stated: flatten_json_params of a nested mapping has no nested
\* mapping, exactly as many keys as the input has leaves, each key the
\* underscore-joined path to its leaf and each value the leaf's value.
C1_AsStated ==
    FlattenedMapping =>
        LET leaves == LeafPaths(arg.v, <<>>)
        IN  /\ NoNestedMapping(ret)
            /\ Len(ret.v) = Len(leaves)
            /\ \A i \in DOMAIN leaves :
                  /\ HasKey(ret.v, JoinPath(leaves[i][1]))
                  /\ Lookup(ret.v, JoinPath(leaves[i][1])) = leaves[i][2]

\* C1 amended: the result has no nested mapping; its keys are exactly the
\* underscore-joined leaf paths (leading empty-string keys dropped), one key
\* per distinct joined path, so as many keys as leaves when no two leaves
\* share a joined path; each value is the value of a leaf with that joined
\* path, None being replaced by the empty list.
C1_FlattenLeaves ==
    FlattenedMapping =>
        LET leaves == LeafPaths(arg.v, <<>>)
            joined(i) == JoinPath(DropLeadingEmpty(leaves[i][1]))
            emitted(i) == IF IsNone(leaves[i][2]) THEN PyList(<<>>) ELSE leaves[i][2]
            joinedKeys == {joined(i) : i \in DOMAIN leaves}
        IN  /\ NoNestedMapping(ret)
            /\ KeysOf(ret.v) = joinedKeys
            /\ Len(ret.v) = Cardinality(joinedKeys)
            /\ (Cardinality(joinedKeys) = Len(leaves) => Len(ret.v) = Len(leaves))
            /\ \A k \in KeysOf(ret.v) :
                  \E i \in DOMAIN leaves : joined(i) = k /\ Lookup(ret.v, k) = emitted(i)

\* a three-level mapping {'a': {'b': {'a': 1}}} has been flattened to {'a_b_a': 1}
C1_Witness ==
    /\ fn = "flatten_json_params"
    /\ arg = PyDict(<< <<"a", PyDict(<< <<"b", PyDict(<< <<"a", PyInt(1)>> >>)>> >>)>> >>)
    /\ ret = PyDict(<< <<"a_b_a", PyInt(1)>> >>)

----------------------------------------------------------------------------
(* Properties of export_to_mat *)

Field(d, k) == Lookup(d.v, k)

\* the experiments of the written document
DocExperiments == Field(export_data, "experiments").v

\* the experiment row carries is_mea = True
FlaggedMEA(exp_node) ==
    /\ HasKey(exp_node.object[1].v, "is_mea")
    /\ Lookup(exp_node.object[1].v, "is_mea") = PyBool(TRUE)

\* the experiment the loop of export_to_mat is about to process
NextIndex == Len(experiments) + 1

\* C2: an Experiment whose row is flagged is_mea makes its extraction fail
\* with the ValueError, whatever the other fields of the node, of its row
\* or of its children are: the step that processes it raises, appends no
\* experiment and writes no document.
C2_MEAAlwaysRejected ==
    [][(pc = "loop" /\ NextIndex <= Len(tree_data) /\ FlaggedMEA(tree_data[NextIndex]))
        => (pc' = "raised" /\ experiments' = experiments /\ export_data' = export_data)]_vars

\* a flagged experiment with children, None columns and a node-level flag
\* that says False has been rejected
C2_Witness ==
    /\ pc = "raised"
    /\ FlaggedMEA(tree_data[NextIndex])
    /\ ~tree_data[NextIndex].is_mea
    /\ tree_data[NextIndex].children # <<>>
    /\ Get(tree_data[NextIndex].object[1], "label") = PyNone
    /\ HasKey(tree_data[NextIndex].object[1].v, "label")

\* C3: a run over several Experiments of which one is rejected still ends
\* with a written document that holds every other Experiment, in source
\* order, and nothing of the rejected one.
C3_PartialBatchWritten ==
    LET rejected == {i \in DOMAIN tree_data : FlaggedMEA(tree_data[i])}
        kept == SelectSeq(tree_data, LAMBDA n : ~FlaggedMEA(n))
    IN  (pc # "loop" /\ rejected # {} /\ kept # <<>>) =>
            /\ pc = "written"
            /\ Len(DocExperiments) = Len(kept)
            /\ \A i \in DOMAIN kept :
                  DocExperiments[i] = deep_sanitize(build_experiment(kept[i], h5_file_path))

\* no None at any depth: every value is a number, string, boolean, byte
\* sequence, mapping or sequence of such values
RECURSIVE NoNoneInside(_)
NoNoneInside(x) ==
    CASE x.t \in {"int", "float", "str", "bool", "bytes"} -> TRUE
      [] x.t = "dict" -> \A i \in DOMAIN x.v : NoNoneInside(x.v[i][2])
      [] x.t = "list" -> \A i \in DOMAIN x.v : NoNoneInside(x.v[i])
      [] OTHER -> FALSE

\* C5: the document export_to_mat hands to the writer holds no None at any
\* depth, for every input tree.
C5_NoNoneInDocument == pc = "written" => NoNoneInside(export_data)

\* a tree whose first experiment has a None label and whose second has no id
\* column has been written: both fields are empty strings in the document
C5_Witness ==
    /\ pc = "written"
    /\ Len(tree_data) = 2
    /\ HasKey(tree_data[1].object[1].v, "label")
    /\ Get(tree_data[1].object[1], "label") = PyNone
    /\ Field(DocExperiments[1], "label") = PyStr("")
    /\ ~HasKey(tree_data[2].object[1].v, "id")
    /\ Field(DocExperiments[2], "id") = PyStr("")
    /\ tree_data[1].children # <<>>

----------------------------------------------------------------------------
(* The source tree and the written document side by side *)

\* sequences joined in order
RECURSIVE SeqConcat(_)
SeqConcat(seqs) ==
    IF seqs = <<>> THEN <<>> ELSE Head(seqs) \o SeqConcat(Tail(seqs))

\* the nodes of a source subtree that carry the level tag, depth-first
RECURSIVE NodesOfLevel(_, _)
NodesOfLevel(node, level) ==
    IF node.level = level THEN << node >>
    ELSE SeqConcat([i \in DOMAIN node.children |->
                        NodesOfLevel(node.children[i], level)])

\* the source experiment has animals, preparations and cells below it
FullHierarchy(exp_node) ==
    \A a \in DOMAIN exp_node.children :
        /\ exp_node.children[a].level = "animal"
        /\ \A p \in DOMAIN exp_node.children[a].children :
              /\ exp_node.children[a].children[p].level = "preparation"
              /\ \A c \in DOMAIN exp_node.children[a].children[p].children :
                    exp_node.children[a].children[p].children[c].level = "cell"

\* <<animal, preparation, cell>> for every cell of a full hierarchy, depth-first
SrcCellPaths(exp_node) ==
    SeqConcat([a \in DOMAIN exp_node.children |->
        SeqConcat([p \in DOMAIN exp_node.children[a].children |->
            [c \in DOMAIN exp_node.children[a].children[p].children |->
                << exp_node.children[a],
                   exp_node.children[a].children[p],
                   exp_node.children[a].children[p].children[c] >>]])])

\* the id a source node has in the written document
DocIdOf(node) == deep_sanitize(Get(NodeObject(node), "id"))

DocCells(i) == Field(DocExperiments[i], "cells").v

\* the epoch blocks of a written experiment, depth-first
DocBlocks(i) ==
    SeqConcat([c \in DOMAIN DocCells(i) |->
        SeqConcat([g \in DOMAIN Field(DocCells(i)[c], "epoch_groups").v |->
            Field(Field(DocCells(i)[c], "epoch_groups").v[g], "epoch_blocks").v])])

\* the parameters column of a source row as a flat mapping
FlatParamsOf(node) ==
    flatten_json_params(GetDefault(NodeObject(node), "parameters", PyDict(<<>>)), "")

Written == pc = "written"

\* C6: each emitted Epoch's parameters are a copy of its parent EpochBlock's
\* flattened parameters overlaid with the Epoch's own flattened parameters:
\* a key of both levels takes the epoch-level value, a key of the block
\* alone is still present in the Epoch's parameters.
C6_EpochInheritsBlock ==
    (Written /\ \A i \in DOMAIN tree_data : FullHierarchy(tree_data[i])) =>
        \A i \in DOMAIN tree_data :
            LET src == NodesOfLevel(tree_data[i], "epoch_block")
                doc == DocBlocks(i)
            IN  /\ Len(doc) = Len(src)
                /\ \A b \in DOMAIN src : \A e \in DOMAIN src[b].children :
                      LET block_params == FlatParamsOf(src[b])
                          own == FlatParamsOf(src[b].children[e])
                          emitted == Field(Field(doc[b], "epochs").v[e], "parameters")
                      IN  /\ emitted = deep_sanitize(
                                PyDict(DictUpdate(block_params.v, own.v)))
                          /\ \A k \in KeysOf(own.v) :
                                Field(emitted, k) = deep_sanitize(Lookup(own.v, k))
                          /\ KeysOf(block_params.v) \subseteq KeysOf(emitted.v)

\* C7: with zero, one or two interposed levels between the Experiment node
\* and the Cell-level nodes, every Cell-level node of the source is exactly
\* one Cell of that Experiment in the output, and no interposed node is
\* emitted as a node of its own.
C7_EveryCellOnce ==
    Written =>
        \A i \in DOMAIN tree_data :
            LET src == NodesOfLevel(tree_data[i], "cell")
                interposed == NodesOfLevel(tree_data[i], "animal")
                              \o NodesOfLevel(tree_data[i], "preparation")
                doc == DocCells(i)
            IN  /\ Len(doc) = Len(src)
                /\ \A c \in DOMAIN src :
                      src[c].object # <<>> =>
                          Cardinality({d \in DOMAIN doc :
                                          Field(doc[d], "id") = DocIdOf(src[c])}) = 1
                /\ \A n \in DOMAIN interposed :
                      interposed[n].object # <<>> =>
                          \A d \in DOMAIN doc : Field(doc[d], "id") # DocIdOf(interposed[n])

\* the destination keys of Cell.properties
PropertyKeys == {"species", "age", "sex", "bath_solution", "region"}

\* the row of the node carries a value for the key
Supplies(node, k) ==
    HasKey(NodeObject(node).v, k) /\ ~IsNone(Get(NodeObject(node), k))

\* C8: when the Animal and the Preparation above a Cell both supply the same
\* destination key of Cell.properties, the value in Cell.properties is the
\* one of the Preparation, the deepest of the two.
C8_DeepestWins ==
    Written =>
        \A i \in DOMAIN tree_data :
            FullHierarchy(tree_data[i]) =>
                LET paths == SrcCellPaths(tree_data[i])
                    doc == DocCells(i)
                IN  /\ Len(doc) = Len(paths)
                    /\ \A c \in DOMAIN paths : \A k \in PropertyKeys :
                          (Supplies(paths[c][1], k) /\ Supplies(paths[c][2], k)) =>
                              Field(Field(doc[c], "properties"), k)
                                  = deep_sanitize(Get(NodeObject(paths[c][2]), k))

\* output nodes and source nodes pair up in order: same number, same ids
SameIds(doc, src) ==
    /\ Len(doc) = Len(src)
    /\ \A j \in DOMAIN src : Field(doc[j], "id") = DocIdOf(src[j])

\* output records and source records pair up in order: same number, same
\* intra-file locators
SameLocators(doc, src) ==
    /\ Len(doc) = Len(src)
    /\ \A j \in DOMAIN src :
          Field(doc[j], "h5_path")
              = deep_sanitize(GetDefault(src[j], "h5path", PyStr("")))

EpochsInOrder(doc, src) ==
    /\ SameIds(doc, src)
    /\ \A j \in DOMAIN src :
          /\ SameLocators(Field(doc[j], "responses").v, src[j].responses)
          /\ SameLocators(Field(doc[j], "stimuli").v, src[j].stimuli)

BlocksInOrder(doc, src) ==
    /\ SameIds(doc, src)
    /\ \A j \in DOMAIN src : EpochsInOrder(Field(doc[j], "epochs").v, src[j].children)

GroupsInOrder(doc, src) ==
    /\ SameIds(doc, src)
    /\ \A j \in DOMAIN src :
          BlocksInOrder(Field(doc[j], "epoch_blocks").v, src[j].children)

CellsInOrder(doc, src) ==
    /\ SameIds(doc, src)
    /\ \A j \in DOMAIN src :
          GroupsInOrder(Field(doc[j], "epoch_groups").v, src[j].children)

\* C9: in the output of export_to_mat over trees with animals and
\* preparations, the experiments, the cells of each experiment (depth-first
\* over animals and preparations), the epoch groups, epoch blocks and epochs
\* of each parent and the responses and stimuli of each epoch are in source
\* order, one output node per source node at each of these levels.
C9_OrderAndCounts ==
    (Written /\ \A i \in DOMAIN tree_data : FullHierarchy(tree_data[i])) =>
        /\ SameIds(DocExperiments, tree_data)
        /\ \A i \in DOMAIN tree_data :
              CellsInOrder(DocCells(i), NodesOfLevel(tree_data[i], "cell"))

\* two experiments have been written; the one animal of the first has Fan
\* preparations, whose cells 1111 and 1121 are the first two cells of the
\* first experiment of the document, in that order
C9_Witness ==
    /\ Written
    /\ Len(tree_data) = 2
    /\ FullHierarchy(tree_data[1])
    /\ Len(tree_data[1].children[1].children) = Fan
    /\ Len(DocCells(1)) = Fan
    /\ Field(DocCells(1)[1], "id") = PyInt(1111)
    /\ Field(DocCells(1)[2], "id") = PyInt(1121)
    /\ Field(DocExperiments[2], "id") = PyInt(2)

----------------------------------------------------------------------------
(* json_to_mat.py: the parameters mapping of an epoch or epoch block as    *)
(* convert_json_to_mat writes it                                           *)

\* np.array(value)
NdArray(items) == [t |-> "ndarray", v |-> items]

\* the branch of convert_parameters for a value that is not a mapping
ConvertLeaf(value) ==
    CASE IsNone(value) -> PyStr("")
      [] value.t = "bool" -> PyInt(IF value.v THEN 1 ELSE 0)
      [] value.t = "int" -> PyInt(value.v)
      [] value.t = "float" -> PyFloat(value.v)
      [] value.t = "list" -> NdArray(value.v)
      [] OTHER -> PyStr(value.v)

RECURSIVE convert_parameters(_)
convert_parameters(params) ==
    PyDict([i \in DOMAIN params.v |->
        << params.v[i][1],
           IF IsDict(params.v[i][2]) THEN convert_parameters(params.v[i][2])
           ELSE ConvertLeaf(params.v[i][2]) >>])

RECURSIVE clean_for_matlab(_)
clean_for_matlab(obj) ==
    IF IsNone(obj) THEN PyStr("")
    ELSE IF IsDict(obj)
    THEN PyDict([i \in DOMAIN obj.v |-> <<obj.v[i][1], clean_for_matlab(obj.v[i][2])>>])
    ELSE IF obj.t = "list"
    THEN PyList([i \in DOMAIN obj.v |-> clean_for_matlab(obj.v[i])])
    ELSE obj

\* the parameters of the JSON document of the reader: json.load yields
\* mappings of any nesting
InitJsonToMat ==
    /\ fn = "none"
    /\ arg \in ParamDicts
    /\ ret = PyNone
    /\ tree_data = <<>>
    /\ h5_file_path = PyNone
    /\ experiments = <<>>
    /\ pc = "idle"
    /\ export_data = PyNone

\* map_epoch / map_epoch_block build the entry, convert_json_to_mat cleans
\* the whole document before savemat
ConvertParameters ==
    /\ fn = "none"
    /\ fn' = "convert_parameters"
    /\ ret' = clean_for_matlab(convert_parameters(arg))
    /\ UNCHANGED <<arg, exportVars>>

NextJsonToMat == ConvertParameters

SpecJsonToMat == InitJsonToMat /\ [][NextJsonToMat]_vars

----------------------------------------------------------------------------
(* Flatness of the mappings of a written document *)

\* the epochs of a written experiment, depth-first
DocEpochs(i) ==
    SeqConcat([b \in DOMAIN DocBlocks(i) |-> Field(DocBlocks(i)[b], "epochs").v])

\* every parameters, properties and stimulus_parameters mapping of the
\* document of export_to_mat is flat
DocMappingsFlat ==
    \A i \in DOMAIN DocExperiments :
        /\ \A c \in DOMAIN DocCells(i) :
              NoNestedMapping(Field(DocCells(i)[c], "properties"))
        /\ \A b \in DOMAIN DocBlocks(i) :
              NoNestedMapping(Field(DocBlocks(i)[b], "parameters"))
        /\ \A e \in DOMAIN DocEpochs(i) :
              /\ NoNestedMapping(Field(DocEpochs(i)[e], "parameters"))
              /\ \A st \in DOMAIN Field(DocEpochs(i)[e], "stimuli").v :
                    NoNestedMapping(Field(Field(DocEpochs(i)[e], "stimuli").v[st],
                                          "stimulus_parameters"))

\* C10: in the document of every conversion entry point, every parameters,
\* properties and stimulus_parameters mapping is flat: none of its values
\* is itself a mapping.
C10_AllMappingsFlat ==
    /\ Written => DocMappingsFlat
    /\ fn = "convert_parameters" => NoNestedMapping(ret)

----------------------------------------------------------------------------
(* Collisions, malformed blobs and flat input of the parameter flattener *)

\* the flattened key of the i-th leaf of the flattened mapping
JoinedKey(i) == JoinPath(DropLeadingEmpty(LeafPaths(arg.v, <<>>)[i][1]))

\* the leaves that flatten to the key, in traversal order
LeavesOfKey(k) == {i \in DOMAIN LeafPaths(arg.v, <<>>) : JoinedKey(i) = k}

\* two different paths of the input produce the same flattened key
HasCollision ==
    \E i, j \in DOMAIN LeafPaths(arg.v, <<>>) : i # j /\ JoinedKey(i) = JoinedKey(j)

\* C11: when several paths of the input produce the same flattened key,
\* flatten_json_params keeps exactly one entry for that key, and its value
\* is the (sanitized) value of the leaf visited last in traversal order.
C11_LastWriteWins ==
    FlattenedMapping =>
        \A k \in {JoinedKey(i) : i \in DOMAIN LeafPaths(arg.v, <<>>)} :
            LET last == CHOOSE i \in LeavesOfKey(k) : \A j \in LeavesOfKey(k) : j <= i
                value == LeafPaths(arg.v, <<>>)[last][2]
            IN  /\ Cardinality({n \in DOMAIN ret.v : ret.v[n][1] = k}) = 1
                /\ Lookup(ret.v, k) = IF IsNone(value) THEN PyList(<<>>) ELSE value

\* {'a_b': 1, 'a': {'b': 2}} has been flattened to the single entry a_b = 2
C11_Witness ==
    /\ fn = "flatten_json_params"
    /\ arg = PyDict(<< <<"a_b", PyInt(1)>>, <<"a", PyDict(<< <<"b", PyInt(2)>> >>)>> >>)
    /\ HasCollision
    /\ ret = PyDict(<< <<"a_b", PyInt(2)>> >>)

\* texts that are not structured data
UnparsableTexts == {"", "not json"}

\* texts of structured data that is not a mapping
NonMappingTexts == {"[1]", "1", "null"}

\* the blob is None, a non-mapping value, a text that does not parse or a
\* text that parses to something other than a mapping
MalformedBlob(blob) ==
    \/ IsNone(blob)
    \/ blob.t \notin {"dict", "str"}
    \/ blob.t = "str" /\ blob.v \in UnparsableTexts \cup NonMappingTexts

\* C12: for a malformed parameter blob (a string that does not parse, a
\* string that parses to a non-mapping, None, any non-mapping value)
\* flatten_json_params returns the empty mapping.
C12_MalformedBlobIsEmpty ==
    (fn = "flatten_json_params" /\ MalformedBlob(arg)) => ret = PyDict(<<>>)

\* the text "[1]", which parses to a list, has been flattened to {}
C12_Witness ==
    /\ fn = "flatten_json_params"
    /\ arg = PyStr("[1]")
    /\ ret = PyDict(<<>>)

----------------------------------------------------------------------------
(* Specification of the parameter flattener applied to its own result *)

InitFlattenTwice ==
    /\ fn = "none"
    /\ arg \in ParamDicts
    /\ ret = PyNone
    /\ tree_data = <<>>
    /\ h5_file_path = PyNone
    /\ experiments = <<>>
    /\ pc = "idle"
    /\ export_data = PyNone

\* flatten_json_params(flatten_json_params(x)): the second call, on the
\* result of the first
CallFlattenAgain ==
    /\ fn = "flatten_json_params"
    /\ fn' = "flatten_json_params_again"
    /\ ret' = flatten_json_params(ret, "")
    /\ UNCHANGED <<arg, exportVars>>

NextFlattenTwice == CallFlatten \/ CallFlattenAgain

SpecFlattenTwice == InitFlattenTwice /\ [][NextFlattenTwice]_vars

\* C13: for every already-flat mapping x, flattening the result of
\* flatten_json_params(x) again returns that same result.
C13_FlattenIdempotent ==
    [][(fn = "flatten_json_params" /\ fn' = "flatten_json_params_again"
            /\ NoNestedMapping(arg)) => ret' = ret]_vars

\* the flat mapping {'a': None, 'b': 1} has been flattened twice
C13_Witness ==
    /\ fn = "flatten_json_params_again"
    /\ arg = PyDict(<< <<"a", PyNone>>, <<"b", PyInt(1)>> >>)
    /\ ret = PyDict(<< <<"a", PyList(<<>>)>>, <<"b", PyInt(1)>> >>)

\* C14 as stated: a mapping none of whose values is a mapping is returned
\* unchanged, same keys and same values.
C14_AsStated ==
    (FlattenedMapping /\ NoNestedMapping(arg)) => ret = arg

\* C14 amended: a mapping none of whose values is a mapping is returned
\* with the same keys in the same order and the same values, except that a
\* None value is returned as the empty list.
C14_FlatKeptButNone ==
    (FlattenedMapping /\ NoNestedMapping(arg)) =>
        ret = PyDict([i \in DOMAIN arg.v |->
                        << arg.v[i][1],
                           IF IsNone(arg.v[i][2]) THEN PyList(<<>>) ELSE arg.v[i][2] >>])

\* the flat mapping {'b': 2, 'a': None, 'a_b': 1} has been flattened
C14_Witness ==
    /\ fn = "flatten_json_params"
    /\ arg = PyDict(<< <<"b", PyInt(2)>>, <<"a", PyNone>>, <<"a_b", PyInt(1)>> >>)
    /\ ret = PyDict(<< <<"b", PyInt(2)>>, <<"a", PyList(<<>>)>>, <<"a_b", PyInt(1)>> >>)

----------------------------------------------------------------------------
(* Bounded inputs of the sanitizers: scalars, None, a temporal value, a    *)
(* tuple, and lists and mappings of them, counted by their number of nodes *)

\* nodes (scalars and containers) of a value handed to a sanitizer
MaxNodes == 4

SanitizeScalars ==
    {PyNone, PyInt(1), PyStr("x"), PyDatetime("2025-01-15 10:00:00"), PyOther("(None,)")}

\* the element sequences of lists with exactly n nodes in total
ListItemsOfSize[n \in Nat] ==
    IF n = 0 THEN {<<>>}
    ELSE UNION {
        LET firstVals == IF w = 1 THEN SanitizeScalars \cup {PyList(<<>>), PyDict(<<>>)}
                         ELSE {PyList(l) : l \in ListItemsOfSize[w - 1]}
                              \cup {PyDict([i \in DOMAIN l |-> <<IF i = 1 THEN "a" ELSE "b", l[i]>>]) :
                                        l \in {x \in ListItemsOfSize[w - 1] : Len(x) <= 2}}
        IN  {<<fv>> \o rest : fv \in firstVals, rest \in ListItemsOfSize[n - w]} : w \in 1..n}

\* every value of at most MaxNodes nodes
SanitizeValues ==
    UNION {{l[1] : l \in {x \in ListItemsOfSize[n] : Len(x) = 1}} : n \in 1..MaxNodes}

InitSanitize ==
    /\ fn = "none"
    /\ arg \in SanitizeValues
    /\ ret = PyNone
    /\ tree_data = <<>>
    /\ h5_file_path = PyNone
    /\ experiments = <<>>
    /\ pc = "idle"
    /\ export_data = PyNone

CallDeepSanitize ==
    /\ fn = "none"
    /\ fn' = "deep_sanitize"
    /\ ret' = deep_sanitize(arg)
    /\ UNCHANGED <<arg, exportVars>>

\* deep_sanitize(deep_sanitize(v)): the second call
CallDeepSanitizeAgain ==
    /\ fn = "deep_sanitize"
    /\ fn' = "deep_sanitize_again"
    /\ ret' = deep_sanitize(ret)
    /\ UNCHANGED <<arg, exportVars>>

CallSanitizeForMatlab ==
    /\ fn = "none"
    /\ fn' = "sanitize_for_matlab"
    /\ ret' = sanitize_for_matlab(arg)
    /\ UNCHANGED <<arg, exportVars>>

\* sanitize_for_matlab(sanitize_for_matlab(v)): the second call
CallSanitizeForMatlabAgain ==
    /\ fn = "sanitize_for_matlab"
    /\ fn' = "sanitize_for_matlab_again"
    /\ ret' = sanitize_for_matlab(ret)
    /\ UNCHANGED <<arg, exportVars>>

NextSanitize ==
    \/ CallDeepSanitize
    \/ CallDeepSanitizeAgain
    \/ CallSanitizeForMatlab
    \/ CallSanitizeForMatlabAgain

SpecSanitize == InitSanitize /\ [][NextSanitize]_vars

\* C15: sanitizing a sanitized value returns it unchanged, for deep_sanitize
\* and for sanitize_for_matlab, for every scalar, None, temporal value,
\* mapping and sequence within the bounds.
C15_SanitizeIdempotent ==
    [][(fn' \in {"deep_sanitize_again", "sanitize_for_matlab_again"} /\ fn' # fn)
            => ret' = ret]_vars

\* {'a': [None, datetime]} has been deep-sanitized twice
C15_Witness ==
    /\ fn = "deep_sanitize_again"
    /\ arg = PyDict(<< <<"a", PyList(<<PyNone, PyDatetime("2025-01-15 10:00:00")>>)>> >>)
    /\ ret = PyDict(<< <<"a", PyList(<<PyStr(""), PyStr("2025-01-15 10:00:00")>>)>> >>)

----------------------------------------------------------------------------
(* quick_export.py: the Response and Stimulus records export_experiment    *)
(* builds from the groups of the H5 file.  A group is a record of its key, *)
(* its attributes and what the code reads below it.                        *)

\* `key.split('-')[0] if '-' in key else key` on the keys the model feeds
DeviceOfKey(key) ==
    CASE key = "Amp1-0a1b" -> "Amp1"
      [] key = "Stage-9f3c" -> "Stage"
      [] OTHER -> key

\* lines 380-425: the units column of the data dataset is None when the
\* group has no data dataset or the dataset has no units column
quick_response(resp_grp, epoch_path) ==
    PyDict(<< <<"id", PyInt(resp_grp.hash)>>,
              <<"device_name", PyStr(DeviceOfKey(resp_grp.key))>>,
              <<"label", PyStr(DeviceOfKey(resp_grp.key))>>,
              <<"data", NdArray(<<>>)>>,
              <<"spike_times", NdArray(<<>>)>>,
              <<"sample_rate", GetDefault(resp_grp.attrs, "sampleRate", PyInt(10000))>>,
              <<"sample_rate_units", PyStr("Hz")>>,
              <<"units", IF IsNone(resp_grp.data_units) THEN PyStr("mV")
                         ELSE resp_grp.data_units>>,
              <<"offset_ms", PyFloat(0)>>,
              <<"h5_path", PyStr(epoch_path \o "/responses/" \o resp_grp.key)>>,
              <<"device_info", resp_grp.device>> >>)

\* lines 431-457
quick_stimulus(stim_grp) ==
    PyDict(<< <<"device_name", PyStr(DeviceOfKey(stim_grp.key))>>,
              <<"stimulus_id", GetDefault(stim_grp.attrs, "stimulusID", PyStr(""))>>,
              <<"duration_seconds", GetDefault(stim_grp.attrs, "durationSeconds", PyFloat(0))>>,
              <<"units", GetDefault(stim_grp.attrs, "units", PyStr(""))>>,
              <<"parameters", stim_grp.parameters>> >>)

\* the attribute mappings that carry any subset of the given attributes
AttrSets(items) ==
    {PyDict(SelectSeq(items, LAMBDA it : it[1] \in keep)) : keep \in SUBSET KeysOf(items)}

ResponseGroups ==
    [key : {"Amp1-0a1b", "Amp1"},
     hash : {4711},
     attrs : AttrSets(<< <<"sampleRate", PyInt(20000)>> >>),
     data_units : {PyNone, PyStr("pA")},
     device : {PyDict(<<>>), PyDict(<< <<"manufacturer", PyStr("Axon")>> >>)}]

StimulusGroups ==
    [key : {"Stage-9f3c", "Stage"},
     attrs : AttrSets(<< <<"stimulusID", PyStr("PulseGenerator")>>,
                         <<"durationSeconds", PyFloat(1)>>,
                         <<"units", PyStr("V")>>,
                         <<"sampleRate", PyInt(10000)>> >>),
     parameters : {PyDict(<<>>), PyDict(<< <<"amplitude", PyInt(1)>> >>)}]

\* the rows build_response_struct and build_stimulus_struct are given
ResponseRows == {MkResponse(style, 7) : style \in Styles}

StimulusRows == {MkStimulus(style, 7) : style \in Styles}

\* arg is <<kind of record, source record, file or path of the epoch>>
InitLazyRecords ==
    /\ fn = "none"
    /\ \/ \E g \in ResponseGroups : arg = <<"quick_response", g, "/epochs/epoch-1">>
       \/ \E g \in StimulusGroups : arg = <<"quick_stimulus", g, "/epochs/epoch-1">>
       \/ \E r \in ResponseRows, f \in {PyNone, PyStr("/path/data.h5")} :
             arg = <<"build_response_struct", r, f>>
       \/ \E r \in StimulusRows, f \in {PyNone, PyStr("/path/data.h5")} :
             arg = <<"build_stimulus_struct", r, f>>
    /\ ret = PyNone
    /\ tree_data = <<>>
    /\ h5_file_path = PyNone
    /\ experiments = <<>>
    /\ pc = "idle"
    /\ export_data = PyNone

CallQuickResponse ==
    /\ fn = "none" /\ arg[1] = "quick_response"
    /\ fn' = "quick_response"
    /\ ret' = quick_response(arg[2], arg[3])
    /\ UNCHANGED <<arg, exportVars>>

CallQuickStimulus ==
    /\ fn = "none" /\ arg[1] = "quick_stimulus"
    /\ fn' = "quick_stimulus"
    /\ ret' = quick_stimulus(arg[2])
    /\ UNCHANGED <<arg, exportVars>>

CallBuildResponseStruct ==
    /\ fn = "none" /\ arg[1] = "build_response_struct"
    /\ fn' = "build_response_struct"
    /\ ret' = build_response_struct(arg[2], arg[3])
    /\ UNCHANGED <<arg, exportVars>>

CallBuildStimulusStruct ==
    /\ fn = "none" /\ arg[1] = "build_stimulus_struct"
    /\ fn' = "build_stimulus_struct"
    /\ ret' = build_stimulus_struct(arg[2], arg[3])
    /\ UNCHANGED <<arg, exportVars>>

NextLazyRecords ==
    \/ CallQuickResponse
    \/ CallQuickStimulus
    \/ CallBuildResponseStruct
    \/ CallBuildStimulusStruct

SpecLazyRecords == InitLazyRecords /\ [][NextLazyRecords]_vars

\* a zero-length sample array
EmptyPlaceholder(x) == x.t \in {"list", "ndarray"} /\ x.v = <<>>

\* C16: every Response and Stimulus record emitted in lazy mode carries its
\* data field as an explicit zero-length placeholder, together with device
\* name, units, sample rate and the locator of the samples; the data field
\* is never omitted.
C16_LazyPlaceholder ==
    fn \in {"quick_response", "quick_stimulus",
            "build_response_struct", "build_stimulus_struct"} =>
        /\ HasKey(ret.v, "data")
        /\ EmptyPlaceholder(Field(ret, "data"))
        /\ {"device_name", "units", "sample_rate", "h5_path"} \subseteq KeysOf(ret.v)

----------------------------------------------------------------------------
(* export_to_epictree.py: eager extraction of the samples of an epoch.     *)
(* What the H5 file answers to a read is an input: the outcome of the read *)
(* and, when it succeeds, the payload.                                     *)

\* responses and stimuli per epoch
MaxRecords == 2

ReadOutcomes == {"ok", "file_missing", "path_missing", "raises"}

\* str(x)
PyStrOf(x) ==
    CASE x.t = "str" -> x.v
      [] IsNone(x) -> "None"
      [] OTHER -> ToString(x.v)

\* the samples, sample rate and units the file holds under a locator
Payload ==
    [quantity |-> <<PyFloat(1), PyFloat(2)>>, sampleRate |-> PyFloat(20000),
     units |-> PyStr("pA")]

\* lines 293-356; the result is the record (None when there is no
\* reference) and the warnings printed
extract_response_data(response_data, outcome) ==
    LET h5_file == Get(response_data, "h5_file")
        h5_path == Get(response_data, "h5_path")
        device_name == PyStrOf(GetDefault(response_data, "label", PyStr("")))
        read == outcome = "ok"
        record == PyDict(<<
            <<"device_name", PyStr(device_name)>>,
            <<"data", NdArray(IF read THEN Payload.quantity ELSE <<>>)>>,
            <<"spike_times", NdArray(<<>>)>>,
            <<"sample_rate", IF read THEN Payload.sampleRate ELSE PyInt(10000)>>,
            <<"sample_rate_units", PyStr("Hz")>>,
            <<"units", IF read THEN Payload.units ELSE PyStr("unknown")>>,
            <<"offset_ms", PyFloat(0)>> >>)
    IN  IF ~Truthy(h5_file) \/ ~Truthy(h5_path)
        THEN [value |-> PyNone,
              warnings |-> << [text |-> "No H5 path for response", node |-> device_name] >>]
        ELSE [value |-> record,
              warnings |->
                CASE outcome = "file_missing" ->
                        << [text |-> "H5 file not found", node |-> PyStrOf(h5_file)] >>
                  [] outcome = "path_missing" ->
                        << [text |-> "Path not found in H5", node |-> PyStrOf(h5_path)] >>
                  [] outcome = "raises" ->
                        << [text |-> "Error reading H5", node |-> device_name] >>
                  [] OTHER -> <<>>]

\* lines 358-402: no branch prints
extract_stimulus_data(stimulus_data, outcome) ==
    LET h5_file == Get(stimulus_data, "h5_file")
        h5_path == Get(stimulus_data, "h5_path")
        device_name == PyStrOf(GetDefault(stimulus_data, "label", PyStr("")))
        read == outcome = "ok"
        record == PyDict(<<
            <<"device_name", PyStr(device_name)>>,
            <<"data", NdArray(IF read THEN Payload.quantity ELSE <<>>)>>,
            <<"sample_rate", IF read THEN Payload.sampleRate ELSE PyInt(10000)>>,
            <<"units", IF read THEN Payload.units ELSE PyStr("normalized")>> >>)
    IN  IF ~Truthy(h5_file) \/ ~Truthy(h5_path)
        THEN [value |-> PyNone, warnings |-> <<>>]
        ELSE [value |-> record, warnings |-> <<>>]

\* the loops of lines 268-287 over the records get_options returned
RECURSIVE ExtractAll(_, _, _)
ExtractAll(sources, kind, acc) ==
    IF sources = <<>> THEN acc
    ELSE LET res == IF kind = "response"
                    THEN extract_response_data(Head(sources).data, Head(sources).outcome)
                    ELSE extract_stimulus_data(Head(sources).data, Head(sources).outcome)
         IN  ExtractAll(Tail(sources), kind,
                [records |-> IF Truthy(res.value) THEN Append(acc.records, res.value)
                             ELSE acc.records,
                 warnings |-> acc.warnings \o res.warnings])

\* the eager part of _build_epoch (lines 268-291)
build_epoch_eager(options) ==
    IF options.raises
    THEN [responses |-> <<>>, stimuli |-> <<>>,
          warnings |-> << [text |-> "Could not extract data for epoch", node |-> "epoch"] >>]
    ELSE LET resp == ExtractAll(options.responses, "response",
                                [records |-> <<>>, warnings |-> <<>>])
             stim == ExtractAll(options.stimuli, "stimulus",
                                [records |-> <<>>, warnings |-> resp.warnings])
         IN  [responses |-> resp.records, stimuli |-> stim.records,
              warnings |-> stim.warnings]

\* a record of get_options: its label tells its position, its locator may
\* be missing, and the read of its samples has one of the outcomes
SourceRecord(kind, i, has_path, outcome) ==
    [data |-> PyDict(<< <<"label", PyStr(kind \o ToString(i))>>,
                        <<"h5_file", PyStr("/data/exp.h5")>>,
                        <<"h5_path", IF has_path
                                     THEN PyStr("/" \o kind \o "-" \o ToString(i))
                                     ELSE PyNone>> >>),
     outcome |-> outcome]

SourceRecords(kind) ==
    UNION {{[i \in 1..n |-> SourceRecord(kind, i, ch[i].has_path, ch[i].outcome)] :
                ch \in [1..n -> {c \in [has_path : BOOLEAN, outcome : ReadOutcomes] :
                                    ~c.has_path => c.outcome = "ok"}]} :
           n \in 0..MaxRecords}

InitEager ==
    /\ fn = "none"
    /\ arg \in [raises : BOOLEAN, responses : SourceRecords("Amp"),
                stimuli : SourceRecords("Stage")]
    /\ ret = PyNone
    /\ tree_data = <<>>
    /\ h5_file_path = PyNone
    /\ experiments = <<>>
    /\ pc = "idle"
    /\ export_data = PyNone

BuildEpochEager ==
    /\ fn = "none"
    /\ fn' = "_build_epoch"
    /\ ret' = build_epoch_eager(arg)
    /\ UNCHANGED <<arg, exportVars>>

NextEager == BuildEpochEager

SpecEager == InitEager /\ [][NextEager]_vars

\* the source records that carry a locator
Referenced(sources) == SelectSeq(sources, LAMBDA r : ~IsNone(Get(r.data, "h5_path")))

\* every source record with a locator is emitted, in order; one whose read
\* succeeded carries its samples, one whose read failed carries the empty
\* placeholder and has a warning that names it, its file or its locator
RecordsDegrade(sources, emitted, warnings) ==
    /\ Len(emitted) = Len(Referenced(sources))
    /\ \A j \in DOMAIN Referenced(sources) :
          LET src == Referenced(sources)[j]
          IN  /\ Field(emitted[j], "device_name") = Get(src.data, "label")
              /\ IF src.outcome = "ok"
                 THEN Field(emitted[j], "data") = NdArray(Payload.quantity)
                 ELSE /\ Field(emitted[j], "data") = NdArray(<<>>)
                      /\ \E w \in DOMAIN warnings :
                            warnings[w].node \in {Get(src.data, "label").v,
                                                  Get(src.data, "h5_file").v,
                                                  Get(src.data, "h5_path").v}

\* C17: in eager mode a failed read of the samples of one Response or
\* Stimulus (file missing, locator not in the file, reader raises) does not
\* abort the export: the record is emitted with the empty placeholder as
\* its data, a warning is surfaced for it, and every other record is
\* emitted as if the failure had not occurred.
C17_ReadFailureDegrades ==
    (fn = "_build_epoch" /\ ~arg.raises) =>
        /\ RecordsDegrade(arg.responses, ret.responses, ret.warnings)
        /\ RecordsDegrade(arg.stimuli, ret.stimuli, ret.warnings)

----------------------------------------------------------------------------
(* import_ugm.py: read_ugm.  The artifact is what h5py finds in the file:  *)
(* whether it opens, whether it holds the ugm struct and the identifiers,  *)
(* the stored flags (numbers) and the stored strings (character codes).    *)
(* A ugm struct holds created, epoch_count and selection_mask, as          *)
(* epicTreeTools.saveUserMetadata writes them; one without the version     *)
(* field makes ugm['version'] raise KeyError.                              *)

\* epochs per artifact
MaxEpochs == 3

\* chr(c) on the character codes the model stores
Chr(c) ==
    CASE c = 97 -> "a"
      [] c = 98 -> "b"
      [] c = 49 -> "1"
      [] c = 48 -> "0"
      [] c = 46 -> "."
      [] OTHER -> "?"

\* ''.join(chr(int(c)) for c in chars)
RECURSIVE JoinChars(_)
JoinChars(chars) ==
    IF chars = <<>> THEN "" ELSE Chr(Head(chars)) \o JoinChars(Tail(chars))

\* lines 104-115 for a dataset of character codes
read_h5_string(chars) == JoinChars(chars)

\* read_h5_cell_strings that leaves the empty strings out
read_h5_cell_strings_SkipEmpty(cells) ==
    LET kept == SelectSeq(cells, LAMBDA c : c # <<>>)
    IN  [i \in DOMAIN kept |-> JoinChars(kept[i])]

\* lines 118-129 for a cell array of references to character arrays
read_h5_cell_strings(cells) == [i \in DOMAIN cells |-> JoinChars(cells[i])]

\* astype(bool) with the flags inverted
AsBool_Inverted(flags) == [i \in DOMAIN flags |-> flags[i] = 0]

\* np.array(...).flatten().astype(bool)
AsBool(flags) == [i \in DOMAIN flags |-> flags[i] # 0]

\* the loop of lines 84-89 from position i on
RECURSIVE SplitByMask(_, _, _, _)
SplitByMask(uuids, mask, i, acc) ==
    IF i > Len(uuids) THEN acc
    ELSE IF uuids[i] = "" THEN SplitByMask(uuids, mask, i + 1, acc)
    ELSE IF mask[i]
    THEN SplitByMask(uuids, mask, i + 1,
                     [acc EXCEPT !.selected = Append(@, PyStr(uuids[i]))])
    ELSE SplitByMask(uuids, mask, i + 1,
                     [acc EXCEPT !.excluded = Append(@, PyStr(uuids[i]))])

\* an exception that leaves the handle as the try body had it (no finally)
Raised_NoFinally(error, handle) ==
    [raised |-> error, value |-> PyNone,
     handle |-> IF handle = "closed" THEN "open" ELSE handle]

\* an exception leaving read_ugm: the finally clause of lines 100-101 has
\* closed the handle if the file was opened
Raised(error, handle) == [raised |-> error, value |-> PyNone, handle |-> handle]

\* read_ugm that accepts an artifact without the identifiers field and
\* counts the selection by position
read_ugm_PositionsOnly(artifact) ==
    IF ~artifact.readable THEN Raised("ValueError: Failed to read .ugm file", "not opened")
    ELSE IF ~artifact.has_ugm
    THEN Raised("ValueError: File does not contain ugm struct", "closed")
    ELSE IF ~artifact.has_version
    THEN Raised("KeyError: version", "closed")
    ELSE LET selection_mask == AsBool(artifact.selection_mask)
             epoch_h5_uuids == IF artifact.has_uuids
                               THEN read_h5_cell_strings(artifact.epoch_h5_uuids)
                               ELSE [i \in DOMAIN selection_mask |-> "?"]
             lists == SplitByMask(epoch_h5_uuids, selection_mask, 1,
                                  [selected |-> <<>>, excluded |-> <<>>])
         IN  IF Len(selection_mask) # Len(epoch_h5_uuids)
             THEN Raised("ValueError: Mask length != UUID count", "closed")
             ELSE IF \A i \in DOMAIN epoch_h5_uuids : epoch_h5_uuids[i] = ""
             THEN Raised("ValueError: no h5_uuids (all empty)", "closed")
             ELSE [raised |-> "", handle |-> "closed",
                   value |-> PyDict(<<
                      <<"version", PyStr(read_h5_string(artifact.version))>>,
                      <<"created", PyStr(read_h5_string(artifact.created))>>,
                      <<"epoch_count", PyInt(artifact.epoch_count)>>,
                      <<"selected_count", PyInt(Len(lists.selected))>>,
                      <<"excluded_count", PyInt(Len(lists.excluded))>>,
                      <<"excluded_uuids", PyList(lists.excluded)>>,
                      <<"selected_uuids", PyList(lists.selected)>> >>)]

\* lines 15-101: the error raised ("" on return), the value returned and
\* the state of the file handle when the call ends
read_ugm(artifact) ==
    IF ~artifact.readable THEN Raised("ValueError: Failed to read .ugm file", "not opened")
    ELSE IF ~artifact.has_ugm
    THEN Raised("ValueError: File does not contain ugm struct", "closed")
    ELSE IF ~artifact.has_version
    THEN Raised("KeyError: version", "closed")
    ELSE LET selection_mask == AsBool(artifact.selection_mask)
             epoch_h5_uuids == read_h5_cell_strings(artifact.epoch_h5_uuids)
             lists == SplitByMask(epoch_h5_uuids, selection_mask, 1,
                                  [selected |-> <<>>, excluded |-> <<>>])
         IN  IF ~artifact.has_uuids
             THEN Raised("ValueError: does not contain epoch_h5_uuids", "closed")
             ELSE IF Len(selection_mask) # Len(epoch_h5_uuids)
             THEN Raised("ValueError: Mask length != UUID count", "closed")
             ELSE IF \A i \in DOMAIN epoch_h5_uuids : epoch_h5_uuids[i] = ""
             THEN Raised("ValueError: no h5_uuids (all empty)", "closed")
             ELSE [raised |-> "", handle |-> "closed",
                   value |-> PyDict(<<
                      <<"version", PyStr(read_h5_string(artifact.version))>>,
                      <<"created", PyStr(read_h5_string(artifact.created))>>,
                      <<"epoch_count", PyInt(artifact.epoch_count)>>,
                      <<"selected_count", PyInt(Len(lists.selected))>>,
                      <<"excluded_count", PyInt(Len(lists.excluded))>>,
                      <<"excluded_uuids", PyList(lists.excluded)>>,
                      <<"selected_uuids", PyList(lists.selected)>> >>)]

\* the stored identifiers: empty, "a", "b"
StoredUuids == {<<>>, <<97>>, <<98>>}

SeqsUpTo(S, n) == UNION {[1..k -> S] : k \in 0..n}

\* an artifact without the identifiers field stores no identifiers
Artifacts ==
    {a \in [readable : BOOLEAN, has_ugm : BOOLEAN, has_version : BOOLEAN,
            has_uuids : BOOLEAN,
            version : {<<49, 46, 49>>}, created : {<<49, 48>>},
            epoch_count : 0..MaxEpochs,
            selection_mask : SeqsUpTo({0, 1}, MaxEpochs),
            epoch_h5_uuids : SeqsUpTo(StoredUuids, MaxEpochs)] :
        /\ a.epoch_count = Len(a.selection_mask)
        /\ ~a.has_uuids => a.epoch_h5_uuids = <<>>}

InitReadUgm ==
    /\ fn = "none"
    /\ arg \in Artifacts
    /\ ret = PyNone
    /\ tree_data = <<>>
    /\ h5_file_path = PyNone
    /\ experiments = <<>>
    /\ pc = "idle"
    /\ export_data = PyNone

CallReadUgm ==
    /\ fn = "none"
    /\ fn' = "read_ugm"
    /\ ret' = read_ugm(arg)
    /\ UNCHANGED <<arg, exportVars>>

NextReadUgm == CallReadUgm

SpecReadUgm == InitReadUgm /\ [][NextReadUgm]_vars

----------------------------------------------------------------------------
(* Properties of read_ugm *)

\* the artifact opens and holds the ugm struct with the version and
\* identifiers fields
HasIdentifiers(artifact) ==
    artifact.readable /\ artifact.has_ugm /\ artifact.has_version /\ artifact.has_uuids

\* every stored identifier is the empty string
AllEmpty(artifact) ==
    \A i \in DOMAIN artifact.epoch_h5_uuids : artifact.epoch_h5_uuids[i] = <<>>

\* the call ended with an error and returned nothing
Failed == ret.raised # "" /\ ret.value = PyNone

\* C18: an artifact whose flags and identifiers differ in length always
\* fails with the length-mismatch error and returns no selection; the flags
\* are not truncated or padded to fit.
C18_LengthMismatchFails ==
    (fn = "read_ugm" /\ HasIdentifiers(arg)
        /\ Len(arg.selection_mask) # Len(arg.epoch_h5_uuids)) =>
            /\ Failed
            /\ ret.raised = "ValueError: Mask length != UUID count"

\* an artifact with three identifiers (one of them empty) and two flags has
\* been rejected
C18_Witness ==
    /\ fn = "read_ugm"
    /\ arg.epoch_h5_uuids = << <<97>>, <<>>, <<98>> >>
    /\ arg.selection_mask = <<1, 0>>
    /\ HasIdentifiers(arg)
    /\ ret.raised = "ValueError: Mask length != UUID count"

\* C19 as stated: an artifact whose identifiers are all empty strings
\* always fails with the missing-reference error, whatever its flags are.
C19_AsStated ==
    (fn = "read_ugm" /\ HasIdentifiers(arg) /\ AllEmpty(arg)) =>
        /\ Failed
        /\ ret.raised = "ValueError: no h5_uuids (all empty)"

\* C19 amended: an artifact whose identifiers are all empty strings always
\* fails: with the missing-reference error when it has as many flags as
\* identifiers, whatever their values, and with the length-mismatch error
\* otherwise.
C19_AllEmptyFails ==
    (fn = "read_ugm" /\ HasIdentifiers(arg) /\ AllEmpty(arg)) =>
        /\ Failed
        /\ ret.raised = IF Len(arg.selection_mask) = Len(arg.epoch_h5_uuids)
                        THEN "ValueError: no h5_uuids (all empty)"
                        ELSE "ValueError: Mask length != UUID count"

\* an artifact with two empty identifiers and the flags true, false has
\* been rejected for its missing references
C19_Witness ==
    /\ fn = "read_ugm"
    /\ HasIdentifiers(arg)
    /\ arg.epoch_h5_uuids = << <<>>, <<>> >>
    /\ arg.selection_mask = <<1, 0>>
    /\ ret.raised = "ValueError: no h5_uuids (all empty)"

\* C20: an artifact that lacks the identifiers field is a hard validation
\* failure: read_ugm raises and returns no selection, whatever the flags.
C20_MissingIdentifiersFails ==
    (fn = "read_ugm" /\ ~arg.has_uuids) =>
        /\ Failed
        /\ (arg.readable /\ arg.has_ugm /\ arg.has_version) =>
              ret.raised = "ValueError: does not contain epoch_h5_uuids"

\* an artifact with three flags and no identifiers field has been rejected
C20_Witness ==
    /\ fn = "read_ugm"
    /\ arg.readable /\ arg.has_ugm /\ ~arg.has_uuids
    /\ arg.selection_mask = <<1, 1, 0>>
    /\ ret = Raised("ValueError: does not contain epoch_h5_uuids", "closed")

\* C21: a call for a path that cannot be opened (the file does not exist)
\* ends with FileNotFoundError.
C21_MissingFileIsFileNotFound ==
    (fn = "read_ugm" /\ ~arg.readable) => ret.raised = "FileNotFoundError"

----------------------------------------------------------------------------
(* Node identities of the two file converters: export_experiment of        *)
(* quick_export.py and map_experiments of json_to_mat.py. The model keeps  *)
(* the id, the label and the child sequences of every node.                *)

\* keys per parent group of the source file
MaxKeys == 2

\* quick_export.py lines 259, 304, 358: hash(key) % 100000
HashModulus == 100000

\* values hash() can give to a key: str hashes are 64-bit and salted per
\* process, so any assignment of values to distinct keys can occur
HashValues == {7, 100007}

EgKey(g) == "epochGroup-" \o ToString(g)
EbKey(b) == "block-" \o ToString(b)
EpKey(e) == "epoch-" \o ToString(e)

SourceKeys ==
    {EgKey(j) : j \in 1..MaxKeys} \cup {EbKey(j) : j \in 1..MaxKeys}
        \cup {EpKey(j) : j \in 1..MaxKeys}

\* the epoch groups of a source file, in file order; a group with no blocks
\* has no epochBlocks subgroup
GroupsOf(file) ==
    [g \in 1..file.n_groups |->
        [key |-> EgKey(g),
         cell_label |-> IF file.same_cell THEN "Cell A" ELSE "Cell " \o ToString(g),
         has_blocks |-> file.n_blocks > 0,
         blocks |-> [b \in 1..file.n_blocks |->
                        [key |-> EbKey(b),
                         epochs |-> [e \in 1..file.n_epochs |-> EpKey(e)]]]]]

\* lines 357-370
quick_epoch(ep_key, hash) ==
    [id |-> hash[ep_key] % HashModulus, label |-> ep_key]

\* lines 303-318 and 460: the block with its epochs
quick_epoch_block(eb, hash) ==
    [id |-> hash[eb.key] % HashModulus, label |-> eb.key,
     epochs |-> [e \in DOMAIN eb.epochs |-> quick_epoch(eb.epochs[e], hash)]]

\* lines 258-270 and 462-463: only blocks with epochs are kept
quick_epoch_group(eg, hash) ==
    [id |-> hash[eg.key] % HashModulus, label |-> eg.key,
     epoch_blocks |->
        SelectSeq([b \in DOMAIN eg.blocks |-> quick_epoch_block(eg.blocks[b], hash)],
                  LAMBDA blk : blk.epochs # <<>>)]

\* lines 225-466: the loop over the epoch groups; registry holds the cells
\* in the order their labels were first seen
RECURSIVE quick_cells(_, _, _, _)
quick_cells(groups, i, registry, hash) ==
    IF i > Len(groups) THEN registry
    ELSE LET eg == groups[i]
             known == \E c \in DOMAIN registry : registry[c].label = eg.cell_label
             reg1 == IF known THEN registry
                     ELSE Append(registry, [id |-> Len(registry) + 1,
                                            label |-> eg.cell_label,
                                            epoch_groups |-> <<>>])
             epoch_group == quick_epoch_group(eg, hash)
             keep == ~eg.has_blocks \/ epoch_group.epoch_blocks # <<>>
             reg2 == [c \in DOMAIN reg1 |->
                        IF reg1[c].label = eg.cell_label /\ keep
                        THEN [reg1[c] EXCEPT !.epoch_groups = Append(@, epoch_group)]
                        ELSE reg1[c]]
         IN  quick_cells(groups, i + 1, reg2, hash)

\* lines 469-476
TotalEpochs(cells) ==
    \E c \in DOMAIN cells : \E g \in DOMAIN cells[c].epoch_groups :
        \E b \in DOMAIN cells[c].epoch_groups[g].epoch_blocks :
            cells[c].epoch_groups[g].epoch_blocks[b].epochs # <<>>

\* lines 135-511: False when no epoch was found, else the document saved
export_experiment(file) ==
    LET cells == quick_cells(GroupsOf(file), 1, <<>>, file.hash)
    IN  IF ~TotalEpochs(cells) THEN [ok |-> FALSE, experiments |-> <<>>]
        ELSE [ok |-> TRUE, experiments |-> << [id |-> 1, cells |-> cells] >>]

\* json_to_mat.py lines 207-217
map_epoch(epoch_data, epoch_id) == [id |-> epoch_id, label |-> epoch_data]

\* lines 176-204
map_epoch_block(eb_data, eb_id) ==
    [id |-> eb_id, label |-> "Block" \o ToString(eb_id),
     epochs |-> [e \in DOMAIN eb_data.epochs |-> map_epoch(eb_data.epochs[e], e)]]

\* lines 147-173
map_epoch_group(eg_data, eg_id) ==
    [id |-> eg_id, label |-> eg_data.key,
     epoch_blocks |-> [b \in DOMAIN eg_data.blocks |->
                            map_epoch_block(eg_data.blocks[b], b)]]

\* lines 124-144
map_cell(cell_data, cell_id) ==
    [id |-> cell_id, label |-> cell_data.label,
     epoch_groups |-> [g \in DOMAIN cell_data.epoch_groups |->
                            map_epoch_group(cell_data.epoch_groups[g], g)]]

\* lines 70-121: one experiment whose cells are numbered across the animals
\* and preparations
map_experiments(json_data) ==
    LET cells == SeqConcat([a \in DOMAIN json_data.animals |->
                    SeqConcat([p \in DOMAIN json_data.animals[a].preparations |->
                        json_data.animals[a].preparations[p].cells])])
    IN  [ok |-> TRUE,
         experiments |-> << [id |-> 1,
                             cells |-> [c \in DOMAIN cells |-> map_cell(cells[c], c)]] >>]

\* the JSON document of the same recording: the groups under their cells
JsonOf(file) ==
    LET groups == GroupsOf(file)
        cells == IF file.same_cell
                 THEN << [label |-> "Cell A", epoch_groups |-> groups] >>
                 ELSE [g \in DOMAIN groups |->
                          [label |-> groups[g].cell_label, epoch_groups |-> << groups[g] >>]]
    IN  [animals |-> << [preparations |-> << [cells |-> cells] >>] >>]

SourceFiles ==
    [n_groups : 1..MaxKeys, n_blocks : 0..MaxKeys, n_epochs : 0..MaxKeys,
     same_cell : BOOLEAN, hash : [SourceKeys -> HashValues]]

InitNodeIds ==
    /\ fn = "none"
    /\ arg \in SourceFiles
    /\ ret = PyNone
    /\ tree_data = <<>>
    /\ h5_file_path = PyNone
    /\ experiments = <<>>
    /\ pc = "idle"
    /\ export_data = PyNone

CallExportExperiment ==
    /\ fn = "none"
    /\ fn' = "export_experiment"
    /\ ret' = export_experiment(arg)
    /\ UNCHANGED <<arg, exportVars>>

CallMapExperiments ==
    /\ fn = "none"
    /\ fn' = "map_experiments"
    /\ ret' = map_experiments(JsonOf(arg))
    /\ UNCHANGED <<arg, exportVars>>

NextNodeIds == CallExportExperiment \/ CallMapExperiments

SpecNodeIds == InitNodeIds /\ [][NextNodeIds]_vars

\* no two nodes of one sequence share an id
UniqueIds(nodes) ==
    \A i, j \in DOMAIN nodes : nodes[i].id = nodes[j].id => i = j

\* C22: in every emitted document no two cells of one experiment, no two
\* epoch groups of one cell, no two epoch blocks of one group and no two
\* epochs of one block share an id.
C22_SiblingIdsUnique ==
    (fn # "none" /\ ret.ok) =>
        \A x \in DOMAIN ret.experiments :
            LET cells == ret.experiments[x].cells
            IN  /\ UniqueIds(cells)
                /\ \A c \in DOMAIN cells :
                    /\ UniqueIds(cells[c].epoch_groups)
                    /\ \A g \in DOMAIN cells[c].epoch_groups :
                        LET blocks == cells[c].epoch_groups[g].epoch_blocks
                        IN  /\ UniqueIds(blocks)
                            /\ \A b \in DOMAIN blocks : UniqueIds(blocks[b].epochs)

\* the same for the documents of map_experiments alone
C22_MappedIdsUnique == fn = "map_experiments" => C22_SiblingIdsUnique

----------------------------------------------------------------------------
(* cell_type_names.py *)

\* lines 11-61
CELL_TYPE_FULL_NAMES ==
    << <<"OnP", "ON-parasol">>, <<"OffP", "OFF-parasol">>,
       <<"OnM", "ON-midget">>, <<"OffM", "OFF-midget">>,
       <<"BlueOffM", "Blue OFF-midget">>,
       <<"OnS", "ON-stratified">>, <<"OffS", "OFF-stratified">>,
       <<"SBC", "small-bistratified">>,
       <<"BT", "bistratified-transient">>, <<"Tufted", "tufted">>,
       <<"OnLarge", "ON-large">>, <<"OffLarge", "OFF-large">>,
       <<"OnMystery", "ON-mystery">>, <<"OffMystery", "OFF-mystery">>,
       <<"OffBoring", "OFF-boring">>, <<"OnWiggles", "ON-wiggles">>,
       <<"InterestingIfTrue", "interesting-if-true">>,
       <<"BigMas", "big-mas">>, <<"Spotty", "spotty">>, <<"Shadow", "shadow">>,
       <<"Blobby", "blobby">>, <<"Xmas", "xmas">>,
       <<"OnAmacrine", "ON-amacrine">>, <<"OffAmacrine", "OFF-amacrine">>,
       <<"BlueAmacrine", "blue-amacrine">>, <<"Amacrine", "amacrine">>,
       <<"A1", "A1-amacrine">>,
       <<"RB", "rod-bipolar">>, <<"BlueMystery", "blue-mystery">>,
       <<"BluePeaky", "blue-peaky">>,
       <<"RGC", "RGC">>, <<"Unknown", "unknown">> >>

\* lines 64-70
RGC_TYPES ==
    << "OnP", "OffP", "OnM", "OffM", "BlueOffM",
       "OnS", "OffS", "SBC", "BT", "Tufted",
       "OnLarge", "OffLarge", "OnMystery", "OffMystery",
       "OffBoring", "OnWiggles", "InterestingIfTrue",
       "BigMas", "Spotty", "Shadow", "Blobby", "Xmas" >>

\* get_full_cell_type_name that prefixes every name of the table
get_full_cell_type_name_PrefixAll(shorthand, prefix_rgc) ==
    IF HasKey(CELL_TYPE_FULL_NAMES, shorthand)
    THEN IF prefix_rgc THEN "RGC\\" \o Lookup(CELL_TYPE_FULL_NAMES, shorthand)
         ELSE Lookup(CELL_TYPE_FULL_NAMES, shorthand)
    ELSE shorthand

\* lines 73-106
get_full_cell_type_name(shorthand, prefix_rgc) ==
    IF HasKey(CELL_TYPE_FULL_NAMES, shorthand)
    THEN LET full_name == Lookup(CELL_TYPE_FULL_NAMES, shorthand)
         IN  IF prefix_rgc /\ \E i \in DOMAIN RGC_TYPES : RGC_TYPES[i] = shorthand
             THEN "RGC\\" \o full_name
             ELSE full_name
    ELSE shorthand

\* lines 109-130; tolist() of an array gives the list of its elements
convert_cell_types_to_full_names(cell_types, prefix_rgc) ==
    [i \in DOMAIN cell_types |-> get_full_cell_type_name(cell_types[i], prefix_rgc)]

\* length of the lists given to convert_cell_types_to_full_names
MaxTypes == 3

\* the codes of the table and three strings that are not in it
Shorthands ==
    {CELL_TYPE_FULL_NAMES[i][1] : i \in DOMAIN CELL_TYPE_FULL_NAMES}
        \cup {"UnknownType", "", "onp"}

\* the codes of the lists: an RGC type, two other codes of the table, two
\* strings that are not in it
ListedShorthands == {"OnP", "RB", "RGC", "UnknownType", ""}

InitCellTypes ==
    /\ fn = "none"
    /\ arg \in [shorthand : Shorthands, prefix_rgc : BOOLEAN,
                cell_types : SeqsUpTo(ListedShorthands, MaxTypes)]
    /\ ret = PyNone
    /\ tree_data = <<>>
    /\ h5_file_path = PyNone
    /\ experiments = <<>>
    /\ pc = "idle"
    /\ export_data = PyNone

CallGetFullCellTypeName ==
    /\ fn = "none"
    /\ fn' = "get_full_cell_type_name"
    /\ ret' = get_full_cell_type_name(arg.shorthand, arg.prefix_rgc)
    /\ UNCHANGED <<arg, exportVars>>

CallConvertCellTypes ==
    /\ fn = "none"
    /\ fn' = "convert_cell_types_to_full_names"
    /\ ret' = convert_cell_types_to_full_names(arg.cell_types, arg.prefix_rgc)
    /\ UNCHANGED <<arg, exportVars>>

NextCellTypes == CallGetFullCellTypeName \/ CallConvertCellTypes

SpecCellTypes == InitCellTypes /\ [][NextCellTypes]_vars

\* name is what the claim gives for the code s: s itself when the table has
\* no entry for s, else the entry's full name, prefixed for an RGC type when
\* prefix_rgc is set
IsFullNameOf(name, s, prefix_rgc) ==
    LET entries == {i \in DOMAIN CELL_TYPE_FULL_NAMES : CELL_TYPE_FULL_NAMES[i][1] = s}
        is_rgc == \E i \in DOMAIN RGC_TYPES : RGC_TYPES[i] = s
    IN  IF entries = {} THEN name = s
        ELSE \A i \in entries :
                name = IF prefix_rgc /\ is_rgc
                       THEN "RGC\\" \o CELL_TYPE_FULL_NAMES[i][2]
                       ELSE CELL_TYPE_FULL_NAMES[i][2]

\* C23: get_full_cell_type_name returns a code without entry unchanged and
\* otherwise the full name of the table, prefixed with RGC\ exactly when
\* prefix_rgc is true and the code is an RGC type;
\* convert_cell_types_to_full_names does this element by element, keeping
\* length and order.
C23_FullNames ==
    /\ fn = "get_full_cell_type_name" =>
          IsFullNameOf(ret, arg.shorthand, arg.prefix_rgc)
    /\ fn = "convert_cell_types_to_full_names" =>
          /\ Len(ret) = Len(arg.cell_types)
          /\ \A i \in DOMAIN ret :
                IsFullNameOf(ret[i], arg.cell_types[i], arg.prefix_rgc)

\* a list of an RGC type, a code of the table that is no RGC type and a
\* string without entry has been converted with the prefix requested
C23_Witness ==
    /\ fn = "convert_cell_types_to_full_names"
    /\ arg.cell_types = <<"OnP", "RB", "UnknownType">>
    /\ arg.prefix_rgc
    /\ ret = <<"RGC\\ON-parasol", "rod-bipolar", "UnknownType">>

----------------------------------------------------------------------------
(* The file references of the records of export_to_mat *)

\* the responses or stimuli of a written experiment, depth-first
DocRecords(i, kind) ==
    SeqConcat([e \in DOMAIN DocEpochs(i) |-> Field(DocEpochs(i)[e], kind).v])

\* the responses or stimuli of a source experiment, depth-first
SrcRecords(i, kind) ==
    LET epochs == NodesOfLevel(tree_data[i], "epoch")
    IN  SeqConcat([e \in DOMAIN epochs |->
                      IF kind = "responses" THEN epochs[e].responses
                      ELSE epochs[e].stimuli])

\* the file the records of experiment i refer to: the caller's path when one
\* is given, else the data_file of the experiment row, else the empty string
ExpectedFile(i) ==
    LET row == tree_data[i].object[1].v
    IN  IF ~IsNone(h5_file_path) THEN h5_file_path
        ELSE IF HasKey(row, "data_file") /\ ~IsNone(Lookup(row, "data_file"))
        THEN Lookup(row, "data_file")
        ELSE PyStr("")

\* every record of written experiment i refers to the expected file
RecordsReferTo(i) ==
    \A kind \in {"responses", "stimuli"} :
        \A r \in DOMAIN DocRecords(i, kind) :
            Field(DocRecords(i, kind)[r], "h5_file") = ExpectedFile(i)

\* C24 as stated: every Response and Stimulus of the output carries the
\* caller's h5_file_path when one is given, else the experiment's data_file,
\* else the empty string, and an h5_path equal to the h5path of its source
\* record.
C24_AsStated ==
    Written =>
        \A i \in DOMAIN tree_data :
            /\ RecordsReferTo(i)
            /\ FullHierarchy(tree_data[i]) =>
                  \A kind \in {"responses", "stimuli"} :
                      LET doc == DocRecords(i, kind)
                          src == SrcRecords(i, kind)
                      IN  /\ Len(doc) = Len(src)
                          /\ \A j \in DOMAIN src :
                                HasKey(src[j].v, "h5path") =>
                                    Field(doc[j], "h5_path") = Lookup(src[j].v, "h5path")

\* C24 amended: the h5_file is as stated; the h5_path is the h5path of the
\* source record when the record has one, and the empty string when the
\* record has no h5path field or a null h5path.
C24_FileReferences ==
    Written =>
        \A i \in DOMAIN tree_data :
            /\ RecordsReferTo(i)
            /\ FullHierarchy(tree_data[i]) =>
                  \A kind \in {"responses", "stimuli"} :
                      LET doc == DocRecords(i, kind)
                          src == SrcRecords(i, kind)
                      IN  /\ Len(doc) = Len(src)
                          /\ \A j \in DOMAIN src :
                                Field(doc[j], "h5_path") =
                                    IF ~HasKey(src[j].v, "h5path") THEN PyStr("")
                                    ELSE IF IsNone(Lookup(src[j].v, "h5path"))
                                    THEN PyStr("")
                                    ELSE Lookup(src[j].v, "h5path")

\* without a path of the caller, an experiment with a data_file and Fan
\* responses per epoch has been written: its second response refers to the
\* data_file and to the h5path of the second source response
C24_Witness ==
    /\ Written
    /\ IsNone(h5_file_path)
    /\ FullHierarchy(tree_data[1])
    /\ Len(DocRecords(1, "responses")) = Fan
    /\ Field(DocRecords(1, "responses")[2], "h5_file") = PyStr("/path/data.h5")
    /\ Field(DocRecords(1, "responses")[2], "h5_path")
          = Lookup(SrcRecords(1, "responses")[2].v, "h5path")
    /\ Lookup(SrcRecords(1, "responses")[2].v, "h5path").t = "str"

----------------------------------------------------------------------------
(* parse_sample_rate on numbers and on texts given by their characters *)

\* characters per text
MaxChars == 5

RateChars == {"0", "1", ".", " ", "k", "M", "H", "z"}

RateValues ==
    {PyNone, PyInt(0), PyInt(10000), PyFloat(10000), PyBool(TRUE)}
        \cup {PyStrOfChars(chars) : chars \in SeqsUpTo(RateChars, MaxChars)}

InitSampleRate ==
    /\ fn = "none"
    /\ arg \in RateValues
    /\ ret = PyNone
    /\ tree_data = <<>>
    /\ h5_file_path = PyNone
    /\ experiments = <<>>
    /\ pc = "idle"
    /\ export_data = PyNone

CallParseSampleRate ==
    /\ fn = "none"
    /\ fn' = "parse_sample_rate"
    /\ ret' = parse_sample_rate(arg)
    /\ UNCHANGED <<arg, exportVars>>

NextSampleRate == CallParseSampleRate

SpecSampleRate == InitSampleRate /\ [][NextSampleRate]_vars

\* a numeral N: digits, or digits, a point and digits
IsNumeral(s) ==
    /\ s # <<>>
    /\ \A i \in DOMAIN s : s[i] = "." \/ IsDigit(s[i])
    /\ IsDigit(s[1]) /\ IsDigit(s[Len(s)])
    /\ \A i, j \in DOMAIN s : (s[i] = "." /\ s[j] = ".") => i = j

\* the digits of a numeral read as an integer
RECURSIVE DigitsValue(_)
DigitsValue(ds) ==
    IF ds = <<>> THEN 0
    ELSE DigitValue(ds[Len(ds)]) + 10 * DigitsValue(SubSeq(ds, 1, Len(ds) - 1))

\* the number of digits after the point of a numeral
Decimals(s) ==
    IF \E i \in DOMAIN s : s[i] = "."
    THEN Len(s) - (CHOOSE i \in DOMAIN s : s[i] = ".")
    ELSE 0

\* x is the float N * factor for the numeral N
IsProduct(x, numeral, factor) ==
    /\ x.t = "float"
    /\ LET shown == IF "scale" \in DOMAIN x THEN x.scale ELSE 0
       IN  x.v * Pow10(Decimals(numeral))
              = DigitsValue(SelectSeq(numeral, IsDigit)) * factor * Pow10(shown)

UnitFactors ==
    { <<<<>>, 1>>, << <<"H", "z">>, 1>>, << <<"k", "H", "z">>, 1000>>,
      << <<"M", "H", "z">>, 1000000>> }

\* C25: parse_sample_rate gives 0 for None, the number itself for a number,
\* N for the text 'N Hz' or 'N', N*1000 for 'N kHz', N*1000000 for 'N MHz',
\* and 0 for a text that holds no number.
C25_SampleRateInHz ==
    fn = "parse_sample_rate" =>
        /\ IsNone(arg) => ret = PyFloat(0)
        /\ arg.t \in {"int", "float"} => ret = PyFloat(arg.v)
        /\ arg.t = "bool" => ret = PyFloat(IF arg.v THEN 1 ELSE 0)
        /\ arg.t = "chars" =>
              /\ (\A i \in DOMAIN arg.v : ~IsDigit(arg.v[i])) => ret = PyFloat(0)
              /\ \A n \in 1..Len(arg.v) : \A u \in UnitFactors :
                    LET numeral == SubSeq(arg.v, 1, n)
                        rest == SubSeq(arg.v, n + 1, Len(arg.v))
                        blanks == Len(rest) - Len(u[1])
                    IN  (/\ IsNumeral(numeral)
                         /\ blanks >= 0
                         /\ \A i \in 1..blanks : rest[i] = " "
                         /\ SubSeq(rest, blanks + 1, Len(rest)) = u[1])
                            => IsProduct(ret, numeral, u[2])

\* the text '1 kHz' has been parsed to 1000.0
C25_Witness ==
    /\ fn = "parse_sample_rate"
    /\ arg = PyStrOfChars(<<"1", " ", "k", "H", "z">>)
    /\ ret = PyFloat(1000)

----------------------------------------------------------------------------
(* The errors of export_to_mat *)

\* no experiment row of the run carries is_mea = True
NoneFlagged == \A i \in DOMAIN tree_data : ~FlaggedMEA(tree_data[i])

\* the loop of export_to_mat can go on: the next experiment is built, or
\* all are built and the document is written
CanGoOn ==
    \/ Len(experiments) = Len(tree_data)
    \/ Len(experiments) < Len(tree_data) /\ ~IsRejectedMEA(tree_data[NextIndex])

----------------------------------------------------------------------------
(* The values of the source rows in the document of export_to_mat *)

DocGroups(i) ==
    SeqConcat([c \in DOMAIN DocCells(i) |-> Field(DocCells(i)[c], "epoch_groups").v])

\* the rows of the source nodes of a level, depth-first
RowsOfLevel(i, level) ==
    LET nodes == NodesOfLevel(tree_data[i], level)
    IN  [n \in DOMAIN nodes |-> NodeObject(nodes[n])]

\* the nodes of written experiment i, level by level, and the source rows
\* in the same order
DocNodes(i) ==
    << DocExperiments[i] >> \o DocCells(i) \o DocGroups(i) \o DocBlocks(i)
        \o DocEpochs(i) \o DocRecords(i, "responses") \o DocRecords(i, "stimuli")

SrcRows(i) ==
    << tree_data[i].object[1] >> \o RowsOfLevel(i, "cell")
        \o RowsOfLevel(i, "epoch_group") \o RowsOfLevel(i, "epoch_block")
        \o RowsOfLevel(i, "epoch") \o SrcRecords(i, "responses")
        \o SrcRecords(i, "stimuli")

\* the field of the document that holds column k
DocFieldOf(k) == IF k = "h5path" THEN "h5_path" ELSE k

BlobFields == {"parameters", "stimulus_parameters"}

IsPlainScalar(v) == v.t \in {"int", "float", "str", "bool"}

\* every leaf of the blob is in the written mapping under its joined path: a
\* null as an empty sequence, a number, string or boolean as itself
BlobValuesKept(written, blob) ==
    LET leaves == LeafPaths(blob.v, <<>>)
    IN  \A l \in DOMAIN leaves :
            LET key == JoinPath(leaves[l][1])
                leaf == leaves[l][2]
            IN  /\ HasKey(written.v, key)
                /\ IsNone(leaf) => Lookup(written.v, key) = PyList(<<>>)
                /\ IsPlainScalar(leaf) => Lookup(written.v, key) = leaf

----------------------------------------------------------------------------
(* Object identity.  Python dicts and lists are objects that a statement can *)
(* change in place; the functions of field_mapper.py are run here on a heap  *)
(* of such objects, a value being a scalar or a reference to a heap object,  *)
(* so that a write into an object of the caller is visible.                  *)

Ref(a) == [t |-> "ref", v |-> a]

IsRef(x) == x.t = "ref"

IsDictRef(heap, x) == IsRef(x) /\ heap[x.v].t = "dict"

IsListRef(heap, x) == IsRef(x) /\ heap[x.v].t = "list"

\* a new object: the constructors {} and [] and the comprehensions
NewObject(heap, t, items) ==
    [heap |-> Append(heap, [t |-> t, v |-> items]), value |-> Ref(Len(heap) + 1)]

\* the objects of a value as the caller (json.loads, generate_tree) built them
RECURSIVE Store(_, _)
RECURSIVE StoreItems(_, _, _, _)
StoreItems(heap, items, isDict, acc) ==
    IF items = <<>> THEN [heap |-> heap, items |-> acc]
    ELSE LET r == Store(heap, IF isDict THEN Head(items)[2] ELSE Head(items))
         IN  StoreItems(r.heap, Tail(items), isDict,
                        Append(acc, IF isDict THEN <<Head(items)[1], r.value>> ELSE r.value))

Store(heap, x) ==
    IF x.t \in {"dict", "list"}
    THEN LET r == StoreItems(heap, x.v, x.t = "dict", <<>>)
         IN  NewObject(r.heap, x.t, r.items)
    ELSE [heap |-> heap, value |-> x]

\* the value a reference stands for
RECURSIVE Load(_, _)
Load(heap, x) ==
    IF IsDictRef(heap, x)
    THEN PyDict([i \in DOMAIN heap[x.v].v |-> <<heap[x.v].v[i][1], Load(heap, heap[x.v].v[i][2])>>])
    ELSE IF IsListRef(heap, x)
    THEN PyList([i \in DOMAIN heap[x.v].v |-> Load(heap, heap[x.v].v[i])])
    ELSE x

\* sanitize_for_matlab, lines 11-28: [] and {} are new objects, any other
\* value is handed back itself
sanitize_for_matlab_on_heap(heap, value) ==
    IF IsNone(value) THEN NewObject(heap, "list", <<>>)
    ELSE IF IsDictRef(heap, value) /\ heap[value.v].v = <<>> THEN NewObject(heap, "dict", <<>>)
    ELSE [heap |-> heap, value |-> value]

\* flatten_json_params, lines 31-77: result = {} (line 58) is a new object,
\* result.update (line 72) and result[full_key] = ... (line 75) write into it
RECURSIVE flatten_json_params_on_heap(_, _, _)
RECURSIVE FlattenItemsOnHeap(_, _, _, _)
FlattenItemsOnHeap(heap, items, prefix, result) ==
    IF items = <<>> THEN heap
    ELSE LET key == Head(items)[1]
             value == Head(items)[2]
             full_key == FullKey(prefix, key)
         IN  IF IsDictRef(heap, value)
             THEN LET nested == flatten_json_params_on_heap(heap, value, full_key)
                  IN  FlattenItemsOnHeap(
                          [nested.heap EXCEPT ![result].v =
                               DictUpdate(@, nested.heap[nested.value.v].v)],
                          Tail(items), prefix, result)
             ELSE LET s == sanitize_for_matlab_on_heap(heap, value)
                  IN  FlattenItemsOnHeap(
                          [s.heap EXCEPT ![result].v = DictSet(@, full_key, s.value)],
                          Tail(items), prefix, result)

\* the same with result = params_dict in place of result = {}
flatten_json_params_InPlace(heap, params_dict, prefix) ==
    IF ~IsDictRef(heap, params_dict) THEN NewObject(heap, "dict", <<>>)
    ELSE [heap |-> FlattenItemsOnHeap(heap, heap[params_dict.v].v, prefix, params_dict.v),
          value |-> params_dict]

flatten_json_params_on_heap(heap, params_dict, prefix) ==
    IF ~IsDictRef(heap, params_dict) THEN NewObject(heap, "dict", <<>>)
    ELSE LET new == NewObject(heap, "dict", <<>>)
         IN  [heap |-> FlattenItemsOnHeap(new.heap, heap[params_dict.v].v, prefix, new.value.v),
              value |-> new.value]

\* deep_sanitize, lines 80-105: the two comprehensions build new objects
RECURSIVE deep_sanitize_on_heap(_, _)
RECURSIVE DeepSanitizeItems(_, _, _, _)
DeepSanitizeItems(heap, items, isDict, acc) ==
    IF items = <<>> THEN [heap |-> heap, items |-> acc]
    ELSE LET r == deep_sanitize_on_heap(heap, IF isDict THEN Head(items)[2] ELSE Head(items))
         IN  DeepSanitizeItems(r.heap, Tail(items), isDict,
                               Append(acc, IF isDict THEN <<Head(items)[1], r.value>>
                                           ELSE r.value))

deep_sanitize_on_heap(heap, obj) ==
    IF IsRef(obj)
    THEN LET r == DeepSanitizeItems(heap, heap[obj.v].v, heap[obj.v].t = "dict", <<>>)
         IN  NewObject(r.heap, heap[obj.v].t, r.items)
    ELSE [heap |-> heap, value |-> deep_sanitize(obj)]

\* the way of a parameter blob through export_to_mat: flattened by the
\* extractor's caller, sanitized with the document (line 84)
ExportBlobOnHeap(heap, params) ==
    LET flat == flatten_json_params_on_heap(heap, params, "")
    IN  deep_sanitize_on_heap(flat.heap, flat.value)

\* the values the functions are run on, each stored as the caller's objects
HeapValues == SanitizeValues

InitHeap ==
    /\ fn = "none"
    /\ \E x \in HeapValues : arg = Store(<<>>, x)
    /\ ret = PyNone
    /\ tree_data = <<>>
    /\ h5_file_path = PyNone
    /\ experiments = <<>>
    /\ pc = "idle"
    /\ export_data = PyNone

CallSanitizeOnHeap ==
    /\ fn = "none"
    /\ fn' = "sanitize_for_matlab"
    /\ ret' = sanitize_for_matlab_on_heap(arg.heap, arg.value)
    /\ UNCHANGED <<arg, exportVars>>

CallFlattenOnHeap ==
    /\ fn = "none"
    /\ fn' = "flatten_json_params"
    /\ ret' = flatten_json_params_on_heap(arg.heap, arg.value, "")
    /\ UNCHANGED <<arg, exportVars>>

CallDeepSanitizeOnHeap ==
    /\ fn = "none"
    /\ fn' = "deep_sanitize"
    /\ ret' = deep_sanitize_on_heap(arg.heap, arg.value)
    /\ UNCHANGED <<arg, exportVars>>

CallExportBlobOnHeap ==
    /\ fn = "none"
    /\ fn' = "export_to_mat"
    /\ ret' = ExportBlobOnHeap(arg.heap, arg.value)
    /\ UNCHANGED <<arg, exportVars>>

NextHeap ==
    \/ CallSanitizeOnHeap
    \/ CallFlattenOnHeap
    \/ CallDeepSanitizeOnHeap
    \/ CallExportBlobOnHeap

SpecHeap == InitHeap /\ [][NextHeap]_vars

\* the objects of the caller are as they were before the call
InputUnchanged ==
    /\ Len(ret.heap) >= Len(arg.heap)
    /\ \A a \in DOMAIN arg.heap : ret.heap[a] = arg.heap[a]

\* the object is not one of the caller's
IsNewObject(x) == IsRef(x) => x.v \notin DOMAIN arg.heap

\* the references held by the objects reachable from x
RECURSIVE ReachableRefs(_, _)
ReachableRefs(heap, x) ==
    IF ~IsRef(x) THEN {}
    ELSE {x.v} \cup UNION {ReachableRefs(heap, IF heap[x.v].t = "dict" THEN heap[x.v].v[i][2]
                                               ELSE heap[x.v].v[i]) : i \in DOMAIN heap[x.v].v}

IdentifiersOf(artifact) ==
    [i \in DOMAIN artifact.epoch_h5_uuids |-> JoinChars(artifact.epoch_h5_uuids[i])]

\* the non-empty identifiers whose flag is (selected) or is not (excluded)
\* set, in file order
IdentifiersFlagged(artifact, flag) ==
    LET ids == IdentifiersOf(artifact)
        positions == SelectSeq([i \in DOMAIN ids |-> i],
                               LAMBDA i : ids[i] # "" /\ (artifact.selection_mask[i] # 0) = flag)
    IN  [k \in DOMAIN positions |-> PyStr(ids[positions[k]])]

NonEmptyCount(artifact) ==
    Cardinality({i \in DOMAIN artifact.epoch_h5_uuids : artifact.epoch_h5_uuids[i] # <<>>})

\* C29: on success selected_uuids holds, in file order, exactly the
\* non-empty identifiers whose inclusion flag is true and excluded_uuids
\* those whose flag is false; an empty identifier is in neither list, and
\* selected_count and excluded_count are the lengths of the two lists, so
\* that they add up to the number of non-empty identifiers.
C29_SelectionLists ==
    (fn = "read_ugm" /\ ret.raised = "") =>
        /\ Lookup(ret.value.v, "selected_uuids") = PyList(IdentifiersFlagged(arg, TRUE))
        /\ Lookup(ret.value.v, "excluded_uuids") = PyList(IdentifiersFlagged(arg, FALSE))
        /\ \A i \in DOMAIN Lookup(ret.value.v, "selected_uuids").v :
              Lookup(ret.value.v, "selected_uuids").v[i] # PyStr("")
        /\ \A i \in DOMAIN Lookup(ret.value.v, "excluded_uuids").v :
              Lookup(ret.value.v, "excluded_uuids").v[i] # PyStr("")
        /\ Lookup(ret.value.v, "selected_count")
              = PyInt(Len(Lookup(ret.value.v, "selected_uuids").v))
        /\ Lookup(ret.value.v, "excluded_count")
              = PyInt(Len(Lookup(ret.value.v, "excluded_uuids").v))
        /\ Lookup(ret.value.v, "selected_count").v + Lookup(ret.value.v, "excluded_count").v
              = NonEmptyCount(arg)

\* the identifiers "a", empty, "b" with the flags true, true, false were
\* read: "a" is selected, "b" is excluded, the empty one is in neither list
C29_Witness ==
    /\ fn = "read_ugm"
    /\ arg.epoch_h5_uuids = << <<97>>, <<>>, <<98>> >>
    /\ arg.selection_mask = <<1, 1, 0>>
    /\ ret.raised = ""
    /\ Lookup(ret.value.v, "selected_uuids") = PyList(<<PyStr("a")>>)
    /\ Lookup(ret.value.v, "excluded_uuids") = PyList(<<PyStr("b")>>)
    /\ Lookup(ret.value.v, "selected_count") = PyInt(1)
    /\ Lookup(ret.value.v, "excluded_count") = PyInt(1)

\* the ways a call that opened the file can end: the return, the four
\* validation failures and the exception of a missing field
ExitPaths ==
    {"", "ValueError: File does not contain ugm struct",
     "ValueError: does not contain epoch_h5_uuids",
     "ValueError: Mask length != UUID count",
     "ValueError: no h5_uuids (all empty)",
     "KeyError: version"}

\* C30: once read_ugm has opened the artifact, the handle is closed when the
\* call ends, whichever way it ends: the return, each of the validation
\* failures (no ugm struct, no identifiers, length mismatch, all-empty
\* identifiers) and any other exception; a call whose open failed has no
\* handle.
C30_HandleClosed ==
    fn = "read_ugm" =>
        /\ arg.readable => (ret.handle = "closed" /\ ret.raised \in ExitPaths)
        /\ ~arg.readable => ret.handle = "not opened"

\* a ugm struct without its version field was read: the KeyError left the
\* call with the handle closed
C30_Witness ==
    /\ fn = "read_ugm"
    /\ arg.readable /\ arg.has_ugm /\ ~arg.has_version
    /\ ret.raised = "KeyError: version"
    /\ ret.handle = "closed"

====
